---- MODULE Spec2Model ----
(***************************************************************************)
(* Model of the mirage forward renderer: the frame loop with its N frame   *)
(* slots, semaphores and the presentation engine                           *)
(* (src/src/gpu/forward_renderer.rs, src/src/mirage.rs), the GPU resource  *)
(* cache (src/src/renderer/gpu_assets.rs), the forward renderer's          *)
(* prepare/record loops (src/src/renderer/forward_renderer.rs), physical   *)
(* device and queue family selection (src/src/gpu/vk_device_context.rs),   *)
(* swap chain creation, texture upload, memory type search and teardown.   *)
(***************************************************************************)
EXTENDS Integers, Sequences, FiniteSets, TLC

\* ------------------------------------------------------------------------
\* Frame loop: ForwardRenderer::render (gpu) and Mirage::render
\* ------------------------------------------------------------------------
VARIABLES variant, frame_index, cur, pc, in_flight_fences, executing,
          command_buffers, image_index, presented, calls, last_present,
          last_acquire, gpu_signaled, image_available_semaphores,
          render_finished_semaphores, swap_images, slot_image,
          submissions, color_output, present_queue, frames_in_flight,
          uniform_buffer_memories

frameVars == <<variant, frame_index, cur, pc, in_flight_fences, executing,
               command_buffers, image_index, presented, calls,
               last_present, last_acquire, gpu_signaled,
               image_available_semaphores, render_finished_semaphores,
               swap_images, slot_image, submissions, color_output,
               present_queue, frames_in_flight, uniform_buffer_memories>>

\* ------------------------------------------------------------------------
\* Asset store (Assets) and GPU resource cache (GPUAssets)
\* ------------------------------------------------------------------------
VARIABLES asset_count, assets_pool, pipeline_pool, geom_pool, texture_pool,
          next_handle, creates, lookups, lookup_count

cacheVars == <<asset_count, assets_pool, pipeline_pool, geom_pool,
               texture_pool, next_handle, creates, lookups, lookup_count>>

\* ------------------------------------------------------------------------
\* Forward renderer: renderer::ForwardRenderer::render and its caches
\* ------------------------------------------------------------------------
VARIABLES objects, r_frame, rpc, obj_i, shading_cache, pipeline_cache,
          geom_cache, texture_cache, r_next, cmds, writes, uniform_buffers,
          renders,
          depth_reverse_z, z_changed

renderVars == <<objects, r_frame, rpc, obj_i, shading_cache, pipeline_cache,
                geom_cache, texture_cache, r_next, cmds, writes,
                uniform_buffers, renders,
                depth_reverse_z, z_changed>>

\* ------------------------------------------------------------------------
\* Device selection: VkDeviceContext::pick_physical_device
\* ------------------------------------------------------------------------
VARIABLES score_map, devices_seen, dpc, physical_device

deviceVars == <<score_map, devices_seen, dpc, physical_device>>

\* find_queue_families: the families the instance reports for the device,
\* the three roles resolved, and the position of the call
VARIABLES q_properties, queue_families, qpc

queueVars == <<q_properties, queue_families, qpc>>

\* create_swap_chain: the present modes and the image count limits the
\* surface reports, the present mode and image count chosen, and the position
\* of the call
VARIABLES surface_present_modes, min_image_count, max_image_count,
          present_mode, image_count, spc

swapVars == <<surface_present_modes, min_image_count, max_image_count,
              present_mode, image_count, spc>>

\* texture upload: the size of the decoded image, whether the format supports
\* linear filtering, the mip level count, the layout of each mip level, the
\* staging buffer, the single-time commands submitted and completed, the
\* calls made so far, and the position of the upload
VARIABLES tex_width, tex_height, linear_filter, mip_levels, mip_layouts,
          staging, submitted, completed, upload_log, tpc

textureVars == <<tex_width, tex_height, linear_filter, mip_levels, mip_layouts,
                 staging, submitted, completed, upload_log, tpc>>

\* find_memory_type_index: the memory types of the physical device, the
\* allowed type mask, the requested property flags, the index returned, and
\* the position of the call
VARIABLES memory_types, type_bits, property_flags, memory_type_index, mpc

memoryVars == <<memory_types, type_bits, property_flags, memory_type_index, mpc>>

\* shutdown: the number of resources in each GPUAssets pool, the Vulkan
\* objects created, the frames submitted that the GPU has not finished, the
\* strong count of Rc<GPU>, the components dropped after the body of
\* Mirage::drop, the calls made during shutdown, and the position of shutdown
VARIABLES pool_textures, pool_geoms, pool_pipelines, td_created, gpu_in_flight,
          rc_gpu, dropped, td_log, tdpc

teardownVars == <<pool_textures, pool_geoms, pool_pipelines, td_created,
                  gpu_in_flight, rc_gpu, dropped, td_log, tdpc>>

\* the startup and teardown components
setupVars == <<queueVars, swapVars, textureVars, memoryVars, teardownVars>>

vars == <<frameVars, cacheVars, renderVars, deviceVars, setupVars>>

\* what the operations of one component leave alone
nonFrameVars == <<cacheVars, renderVars, deviceVars, setupVars>>
nonCacheVars == <<frameVars, renderVars, deviceVars, setupVars>>
nonRenderVars == <<frameVars, cacheVars, deviceVars, setupVars>>
coreVars == <<frameVars, cacheVars, renderVars, deviceVars>>
nonDeviceVars == <<frameVars, cacheVars, renderVars, setupVars>>
nonQueueVars == <<coreVars, swapVars, textureVars, memoryVars, teardownVars>>
nonSwapVars == <<coreVars, queueVars, textureVars, memoryVars, teardownVars>>
nonTeardownVars == <<coreVars, queueVars, swapVars, textureVars, memoryVars>>
nonMemoryVars == <<coreVars, queueVars, swapVars, textureVars, teardownVars>>
nonTextureVars == <<coreVars, queueVars, swapVars, memoryVars, teardownVars>>

\* ForwardRenderer::MAX_FRAMES_IN_FLIGHT / ForwardRenderer::FRAMES_IN_FLIGHT
MAX_FRAMES_IN_FLIGHT == 2

\* number of render calls the model follows
MaxCalls == 4

\* number of images in the swapchain
MaxImages == 3

Slots == 0 .. (MAX_FRAMES_IN_FLIGHT - 1)

\* the images of the swapchain, by index
Images == 0 .. (MaxImages - 1)

\* the two frame loops of the repository
Variants == {"gpu", "mirage"}

\* results of vkAcquireNextImageKHR / vkQueuePresentKHR the code tells apart
AcquireResults == {"ok", "out_of_date", "error"}
PresentResults == {"ok", "suboptimal", "out_of_date", "error"}

\* Option<T>
None == [some |-> FALSE]
Some(v) == [some |-> TRUE, value |-> v]

\* create_sync_objects: every fence is created with FenceCreateFlags::SIGNALED
create_sync_objects_wrong == [s \in Slots |-> FALSE]
create_sync_objects == [s \in Slots |-> TRUE]

\* create_sync_objects: one image-available and one render-finished binary
\* semaphore per slot, created unsignaled
create_semaphores == [s \in Slots |-> "unsignaled"]

\* create_command_buffers: one primary command buffer per slot
create_command_buffers == [s \in Slots |-> "initial"]

\* wait_for_fences(&[fence], true, u64::MAX): returns once the fence is signaled
wait_for_fences_wrong(fences, s) == TRUE
wait_for_fences(fences, s) == fences[s]

\* frame_index.set((frame_index + 1) % MAX_FRAMES_IN_FLIGHT)
next_frame_index_wrong(i) == i
next_frame_index(i) == (i + 1) % MAX_FRAMES_IN_FLIGHT

\* vk::SubmitInfo of the frame in slot s and the fence handed to queue_submit:
\* wait on image_available_semaphores[s] at COLOR_ATTACHMENT_OUTPUT, signal
\* render_finished_semaphores[s], signal in_flight_fences[s] on completion
submit_info_wrong(s) ==
    [wait_semaphore |-> None,
     wait_dst_stage_mask |-> "COLOR_ATTACHMENT_OUTPUT",
     signal_semaphore |-> Some(s),
     fence |-> Some(s)]
submit_info_nofence(s) ==
    [wait_semaphore |-> Some(s),
     wait_dst_stage_mask |-> "COLOR_ATTACHMENT_OUTPUT",
     signal_semaphore |-> Some(s),
     fence |-> None]
submit_info(s) ==
    [wait_semaphore |-> Some(s),
     wait_dst_stage_mask |-> "COLOR_ATTACHMENT_OUTPUT",
     signal_semaphore |-> Some(s),
     fence |-> Some(s)]

\* vk::PresentInfoKHR: wait_semaphores(&signal_semaphores), the acquired image
present_info(s, img) == [wait_semaphore |-> Some(s), image |-> img]

\* uniform_buffer_memories_mapped[frame_index]: the mapped copy the scene data
\* is written to; create_uniform_buffers makes one copy per slot
uniform_buffer_memories_mapped_wrong(i) == 0
uniform_buffer_memories_mapped(i) == i

\* descriptor_sets[index] is written with uniform_buffers[index] in new(), so
\* the command buffer of slot s reads copy s
DescriptorSetBuffer(s) == s

\* a swapchain image: who holds it, whether the presentation engine has
\* released it to the application, whether the frame drawn to it is complete
FreeImage == [owner |-> "free", ready |-> FALSE, rendered |-> FALSE]

InitFrame ==
    /\ variant \in Variants
    /\ frame_index = 0
    /\ cur = 0
    /\ pc = "idle"
    /\ in_flight_fences = create_sync_objects
    /\ executing = [s \in Slots |-> FALSE]
    /\ command_buffers = create_command_buffers
    /\ image_index = 0
    /\ presented = 0
    /\ calls = 0
    /\ last_present = "none"
    /\ last_acquire = "none"
    /\ gpu_signaled = [s \in Slots |-> FALSE]
    /\ image_available_semaphores = create_semaphores
    /\ render_finished_semaphores = create_semaphores
    /\ swap_images = [i \in Images |-> FreeImage]
    /\ slot_image = [s \in Slots |-> 0]
    /\ submissions = [s \in Slots |-> submit_info(s)]
    /\ color_output = [s \in Slots |-> FALSE]
    /\ present_queue = << >>
    /\ frames_in_flight = 0
    /\ uniform_buffer_memories = [s \in Slots |-> 0]

\* let frame_index = self.frame_index.get();
RenderBegin ==
    /\ pc = "idle"
    /\ calls < MaxCalls
    /\ calls' = calls + 1
    /\ cur' = frame_index
    /\ last_acquire' = "none"
    /\ pc' = "wait"
    /\ UNCHANGED <<variant, frame_index, in_flight_fences, executing,
                   command_buffers, image_index, presented, last_present,
                   gpu_signaled, image_available_semaphores,
                   render_finished_semaphores, swap_images, slot_image,
                   submissions, color_output, present_queue, frames_in_flight,
                   uniform_buffer_memories>>
    /\ UNCHANGED nonFrameVars

\* device.wait_for_fences(&[fence], true, u64::MAX)
WaitForFences ==
    /\ pc = "wait"
    /\ wait_for_fences(in_flight_fences, cur)
    /\ pc' = "acquire"
    /\ UNCHANGED <<variant, frame_index, cur, in_flight_fences, executing,
                   command_buffers, image_index, presented, calls, last_present,
                   last_acquire, gpu_signaled, image_available_semaphores,
                   render_finished_semaphores, swap_images, slot_image,
                   submissions, color_output, present_queue, frames_in_flight,
                   uniform_buffer_memories>>
    /\ UNCHANGED nonFrameVars

\* acquire_next_image(swap_chain, u64::MAX, image_available_semaphore, null):
\* Ok gives the index of an image the application does not hold and leaves
\* the semaphore to be signaled when the presentation engine releases the
\* image; ERROR_OUT_OF_DATE_KHR returns from render in gpu::ForwardRenderer
\* and panics in SwapChain::acquire_image (Mirage::render); every other
\* error panics.
AcquireNextImage ==
    /\ pc = "acquire"
    /\ \E r \in AcquireResults :
          /\ last_acquire' = r
          /\ \/ /\ r = "ok"
                /\ \E img \in Images :
                      /\ swap_images[img].owner = "free"
                      /\ image_index' = img
                      /\ swap_images' =
                            [swap_images EXCEPT ![img] =
                                [owner |-> "acquired", ready |-> FALSE,
                                 rendered |-> FALSE]]
                      /\ slot_image' = [slot_image EXCEPT ![cur] = img]
                /\ image_available_semaphores' =
                      [image_available_semaphores EXCEPT ![cur] = "pending"]
                /\ pc' = "reset_fence"
             \/ /\ r = "out_of_date"
                /\ pc' = IF variant = "gpu" THEN "idle" ELSE "panicked"
                /\ UNCHANGED <<image_index, swap_images, slot_image,
                               image_available_semaphores>>
             \/ /\ r = "error"
                /\ pc' = "panicked"
                /\ UNCHANGED <<image_index, swap_images, slot_image,
                               image_available_semaphores>>
    /\ UNCHANGED <<variant, frame_index, cur, in_flight_fences, executing,
                   command_buffers, presented, calls, last_present, gpu_signaled,
                   render_finished_semaphores, submissions, color_output,
                   present_queue, frames_in_flight, uniform_buffer_memories>>
    /\ UNCHANGED nonFrameVars

\* device.reset_fences(&[fence])
ResetFences ==
    /\ pc = "reset_fence"
    /\ in_flight_fences' = [in_flight_fences EXCEPT ![cur] = FALSE]
    /\ pc' = "reset_cb"
    /\ UNCHANGED <<variant, frame_index, cur, executing, command_buffers,
                   image_index, presented, calls, last_present, last_acquire,
                   gpu_signaled, image_available_semaphores,
                   render_finished_semaphores, swap_images, slot_image,
                   submissions, color_output, present_queue, frames_in_flight,
                   uniform_buffer_memories>>
    /\ UNCHANGED nonFrameVars

\* device.reset_command_buffer(command_buffer, ..)
ResetCommandBuffer ==
    /\ pc = "reset_cb"
    /\ command_buffers' = [command_buffers EXCEPT ![cur] = "initial"]
    /\ pc' = "record"
    /\ UNCHANGED <<variant, frame_index, cur, in_flight_fences, executing,
                   image_index, presented, calls, last_present, last_acquire,
                   gpu_signaled, image_available_semaphores,
                   render_finished_semaphores, swap_images, slot_image,
                   submissions, color_output, present_queue, frames_in_flight,
                   uniform_buffer_memories>>
    /\ UNCHANGED nonFrameVars

\* begin_command_buffer .. end_command_buffer; the renderer called in between
\* copies the scene data into the mapped uniform buffer of frame_index
RecordCommandBuffer ==
    /\ pc = "record"
    /\ uniform_buffer_memories' =
          [uniform_buffer_memories EXCEPT
              ![uniform_buffer_memories_mapped(cur)] = calls]
    /\ command_buffers' = [command_buffers EXCEPT ![cur] = "executable"]
    /\ pc' = "submit"
    /\ UNCHANGED <<variant, frame_index, cur, in_flight_fences, executing,
                   image_index, presented, calls, last_present, last_acquire,
                   gpu_signaled, image_available_semaphores,
                   render_finished_semaphores, swap_images, slot_image,
                   submissions, color_output, present_queue, frames_in_flight>>
    /\ UNCHANGED nonFrameVars

\* device.queue_submit(graphic_queue, &[submit_info], fence)
QueueSubmit ==
    /\ pc = "submit"
    /\ submissions' = [submissions EXCEPT ![cur] = submit_info(cur)]
    /\ executing' = [executing EXCEPT ![cur] = TRUE]
    /\ color_output' = [color_output EXCEPT ![cur] = FALSE]
    /\ frames_in_flight' = frames_in_flight + 1
    /\ command_buffers' = [command_buffers EXCEPT ![cur] = "pending"]
    /\ pc' = "present"
    /\ UNCHANGED <<variant, frame_index, cur, in_flight_fences, image_index,
                   presented, calls, last_present, last_acquire, gpu_signaled,
                   image_available_semaphores, render_finished_semaphores,
                   swap_images, slot_image, present_queue,
                   uniform_buffer_memories>>
    /\ UNCHANGED nonFrameVars

\* queue_present: Ok(false), Ok(true) = suboptimal, ERROR_OUT_OF_DATE_KHR is
\* turned into is_suboptimal = true, any other error panics; then
\* self.frame_index.set((frame_index + 1) % N). A present that did not
\* fail hands the image and the semaphore wait to the presentation engine.
QueuePresent ==
    /\ pc = "present"
    /\ \E r \in PresentResults :
          /\ last_present' = r
          /\ IF r = "error"
             THEN /\ pc' = "panicked"
                  /\ UNCHANGED <<frame_index, presented, present_queue,
                                 swap_images>>
             ELSE /\ presented' = presented + 1
                  /\ present_queue' =
                        Append(present_queue, present_info(cur, image_index))
                  /\ swap_images' =
                        [swap_images EXCEPT ![image_index].owner = "queued"]
                  /\ frame_index' = next_frame_index(cur)
                  /\ pc' = "idle"
    /\ UNCHANGED <<variant, cur, in_flight_fences, executing, command_buffers,
                   image_index, calls, last_acquire, gpu_signaled,
                   image_available_semaphores, render_finished_semaphores,
                   slot_image, submissions, color_output, frames_in_flight,
                   uniform_buffer_memories>>
    /\ UNCHANGED nonFrameVars

\* The presentation engine releases the image acquired for slot s: the
\* semaphore given to acquire_next_image is signaled.
ImageAvailable(s) ==
    /\ image_available_semaphores[s] = "pending"
    /\ image_available_semaphores' =
          [image_available_semaphores EXCEPT ![s] = "signaled"]
    /\ swap_images' = [swap_images EXCEPT ![slot_image[s]].ready = TRUE]
    /\ UNCHANGED <<variant, frame_index, cur, pc, in_flight_fences, executing,
                   command_buffers, image_index, presented, calls, last_present,
                   last_acquire, gpu_signaled, render_finished_semaphores,
                   slot_image, submissions, color_output, present_queue,
                   frames_in_flight, uniform_buffer_memories>>
    /\ UNCHANGED nonFrameVars

\* The GPU reaches the wait_dst_stage_mask stage of the submission of slot s:
\* colour output starts once the wait semaphore, if any, is signaled, and
\* the wait unsignals it.
GpuColorOutput(s) ==
    /\ executing[s]
    /\ ~color_output[s]
    /\ LET w == submissions[s].wait_semaphore IN
          IF w.some
          THEN /\ image_available_semaphores[w.value] = "signaled"
               /\ image_available_semaphores' =
                     [image_available_semaphores EXCEPT
                         ![w.value] = "unsignaled"]
          ELSE UNCHANGED image_available_semaphores
    /\ color_output' = [color_output EXCEPT ![s] = TRUE]
    /\ UNCHANGED <<variant, frame_index, cur, pc, in_flight_fences, executing,
                   command_buffers, image_index, presented, calls, last_present,
                   last_acquire, gpu_signaled, render_finished_semaphores,
                   swap_images, slot_image, submissions, present_queue,
                   frames_in_flight, uniform_buffer_memories>>
    /\ UNCHANGED nonFrameVars

\* The GPU finishes the submission of slot s: it signals the submission's
\* signal semaphore and its fence.
GpuComplete(s) ==
    /\ executing[s]
    /\ color_output[s]
    /\ executing' = [executing EXCEPT ![s] = FALSE]
    /\ color_output' = [color_output EXCEPT ![s] = FALSE]
    /\ frames_in_flight' = frames_in_flight - 1
    /\ LET f == submissions[s].fence IN
          IF f.some
          THEN /\ in_flight_fences' = [in_flight_fences EXCEPT ![f.value] = TRUE]
               /\ gpu_signaled' = [gpu_signaled EXCEPT ![f.value] = TRUE]
          ELSE UNCHANGED <<in_flight_fences, gpu_signaled>>
    /\ LET g == submissions[s].signal_semaphore IN
          render_finished_semaphores' =
              IF g.some
              THEN [render_finished_semaphores EXCEPT ![g.value] = "signaled"]
              ELSE render_finished_semaphores
    /\ swap_images' = [swap_images EXCEPT ![slot_image[s]].rendered = TRUE]
    /\ command_buffers' = [command_buffers EXCEPT ![s] = "executable"]
    /\ UNCHANGED <<variant, frame_index, cur, pc, image_index, presented, calls,
                   last_present, last_acquire, image_available_semaphores,
                   slot_image, submissions, present_queue,
                   uniform_buffer_memories>>
    /\ UNCHANGED nonFrameVars

\* The presentation engine takes the oldest present request: it waits on
\* the request's semaphore, unsignals it, shows the image and gives the
\* image back for acquisition.
PresentEngine ==
    /\ present_queue # << >>
    /\ LET h == Head(present_queue) IN
          /\ h.wait_semaphore.some =>
                 render_finished_semaphores[h.wait_semaphore.value] = "signaled"
          /\ render_finished_semaphores' =
                 IF h.wait_semaphore.some
                 THEN [render_finished_semaphores EXCEPT
                          ![h.wait_semaphore.value] = "unsignaled"]
                 ELSE render_finished_semaphores
          /\ swap_images' = [swap_images EXCEPT ![h.image].owner = "free"]
    /\ present_queue' = Tail(present_queue)
    /\ UNCHANGED <<variant, frame_index, cur, pc, in_flight_fences, executing,
                   command_buffers, image_index, presented, calls, last_present,
                   last_acquire, gpu_signaled, image_available_semaphores,
                   slot_image, submissions, color_output, frames_in_flight,
                   uniform_buffer_memories>>
    /\ UNCHANGED nonFrameVars

NextFrame ==
    \/ RenderBegin
    \/ WaitForFences
    \/ AcquireNextImage
    \/ ResetFences
    \/ ResetCommandBuffer
    \/ RecordCommandBuffer
    \/ QueueSubmit
    \/ QueuePresent
    \/ \E s \in Slots : ImageAvailable(s)
    \/ \E s \in Slots : GpuColorOutput(s)
    \/ \E s \in Slots : GpuComplete(s)
    \/ PresentEngine

\* ------------------------------------------------------------------------
\* Assets::handle / Assets::load and the GPUAssets cache
\* ------------------------------------------------------------------------

\* number of assets the asset store registers
MaxAssets == 2

\* number of cache lookups the model follows
MaxLookups == 3

\* the render passes a pipeline can be built against (vk::RenderPass)
RenderPasses == {"rpA", "rpB"}

\* HashMap::get
HashMapGet_wrong(map, k) == None
HashMapGet(map, k) == IF k \in DOMAIN map THEN Some(map[k]) ELSE None

\* HashMap::insert: stores v under k and returns the value k had before
HashMapInsert(map, k, v) ==
    [map |-> [x \in (DOMAIN map) \cup {k} |-> IF x = k THEN v ELSE map[x]],
     old |-> HashMapGet(map, k)]

\* HashMap::entry(k).or_insert(v)
HashMapOrInsert(map, k, v) ==
    IF k \in DOMAIN map THEN map
    ELSE [x \in (DOMAIN map) \cup {k} |-> IF x = k THEN v ELSE map[x]]

EmptyMap == [x \in {} |-> None]

\* Shading::load: the one shading definition of the repository, id 0
ShadingLoad == [id |-> 0, mode |-> "Unlit", depth_test |-> TRUE, depth_write |-> TRUE]

\* the assets Assets::handle can be given when COUNT is count: a Geom, a
\* Texture, or a Material whose "texture" property is unset or holds a handle
\* returned earlier (of any asset type)
AssetValues(count) ==
    {[kind |-> "geom"], [kind |-> "texture"]}
    \cup {[kind |-> "material", shading |-> ShadingLoad, texture |-> t] :
              t \in {None} \cup {Some(i) : i \in 1 .. count - 1}}

\* Material::get_texture("texture")
MaterialGetTexture(material) == material.texture

\* assets.load(&handle)? as GPUAssets uses it: None for a handle the pool
\* does not hold or holds with another type
AssetsLoadOpt(pool, id, kind) ==
    IF id \in DOMAIN pool /\ pool[id].kind = kind THEN Some(pool[id]) ELSE None

\* GPUTexture::new, GPUGeom::new, GPUPipeline::new: the GPU objects created
GPUTextureNew(h) == [image |-> h]
GPUGeomNew(h) == [vertex_buffer |-> h]
GPUPipelineNew(h, material, render_pass) ==
    [pipeline |-> h, render_pass |-> render_pass, shading |-> material.shading.id]

\* one more GPU create call under a cache key
CountCreate(cr, key) ==
    [x \in (DOMAIN cr) \cup {key} |->
        IF x = key THEN (IF key \in DOMAIN cr THEN cr[key] + 1 ELSE 1) ELSE cr[x]]

\* GPUAssets::get_texture on the cache state st
get_texture(st, id) ==
    LET hit == HashMapGet(st.texture_pool, id)
        asset == AssetsLoadOpt(st.assets_pool, id, "texture")
        ins == HashMapInsert(st.texture_pool, id, GPUTextureNew(st.next_handle))
    IN  IF hit.some THEN [st |-> st, result |-> Some(hit.value), gpu_work |-> FALSE]
        ELSE IF ~asset.some THEN [st |-> st, result |-> None, gpu_work |-> FALSE]
        ELSE [st |-> [st EXCEPT !.texture_pool = ins.map,
                                !.next_handle = @ + 1,
                                !.creates = CountCreate(@, <<"texture", id>>)],
              result |-> ins.old,
              gpu_work |-> TRUE]

\* GPUAssets::get_geom
get_geom(st, id) ==
    LET hit == HashMapGet(st.geom_pool, id)
        asset == AssetsLoadOpt(st.assets_pool, id, "geom")
        ins == HashMapInsert(st.geom_pool, id, GPUGeomNew(st.next_handle))
    IN  IF hit.some THEN [st |-> st, result |-> Some(hit.value), gpu_work |-> FALSE]
        ELSE IF ~asset.some THEN [st |-> st, result |-> None, gpu_work |-> FALSE]
        ELSE [st |-> [st EXCEPT !.geom_pool = ins.map,
                                !.next_handle = @ + 1,
                                !.creates = CountCreate(@, <<"geom", id>>)],
              result |-> ins.old,
              gpu_work |-> TRUE]

\* pipelines.get(&renderer.render_pass)
PipelinesGet_wrong(pipelines, render_pass) ==
    IF DOMAIN pipelines = {} THEN None
    ELSE Some(pipelines[CHOOSE rp \in DOMAIN pipelines : TRUE])
PipelinesGet(pipelines, render_pass) == HashMapGet(pipelines, render_pass)

\* GPUAssets::get_pipeline
get_pipeline(st, id, render_pass) ==
    LET pool1 == HashMapOrInsert(st.pipeline_pool, id, EmptyMap)
        pipelines == pool1[id]
        hit == PipelinesGet(pipelines, render_pass)
        asset == AssetsLoadOpt(st.assets_pool, id, "material")
        ins == HashMapInsert(pipelines, render_pass,
                             GPUPipelineNew(st.next_handle, asset.value, render_pass))
        st1 == [st EXCEPT !.pipeline_pool = pool1]
    IN  IF hit.some THEN [st |-> st1, result |-> Some(hit.value), gpu_work |-> FALSE]
        ELSE IF ~asset.some THEN [st |-> st1, result |-> None, gpu_work |-> FALSE]
        ELSE [st |-> [st1 EXCEPT !.pipeline_pool[id] = ins.map,
                                 !.next_handle = @ + 1,
                                 !.creates = CountCreate(@, <<"pipeline", id, render_pass>>)],
              result |-> ins.old,
              gpu_work |-> TRUE]

\* GPUAssets::get_material, from the point where the pipeline is known:
\* properties.insert("texture", self.get_texture(value)); Some((pipeline, properties))
get_material_properties(st, material, pipeline, work) ==
    LET tex == MaterialGetTexture(material)
        texres == get_texture(st, tex.value)
    IN  IF tex.some
        THEN [st |-> texres.st,
              result |-> Some([pipeline |-> pipeline, texture |-> Some(texres.result)]),
              gpu_work |-> work \/ texres.gpu_work]
        ELSE [st |-> st,
              result |-> Some([pipeline |-> pipeline, texture |-> None]),
              gpu_work |-> work]

\* GPUAssets::get_material
get_material(st, id, render_pass) ==
    LET pool1 == HashMapOrInsert(st.pipeline_pool, id, EmptyMap)
        pipelines == pool1[id]
        st1 == [st EXCEPT !.pipeline_pool = pool1]
        asset == AssetsLoadOpt(st.assets_pool, id, "material")
        hit == PipelinesGet(pipelines, render_pass)
        ins == HashMapInsert(pipelines, render_pass,
                             GPUPipelineNew(st.next_handle, asset.value, render_pass))
        st2 == [st1 EXCEPT !.pipeline_pool[id] = ins.map,
                           !.next_handle = @ + 1,
                           !.creates = CountCreate(@, <<"pipeline", id, render_pass>>)]
    IN  IF ~asset.some THEN [st |-> st1, result |-> None, gpu_work |-> FALSE]
        ELSE IF hit.some
        THEN get_material_properties(st1, asset.value, hit.value, FALSE)
        \* pipelines.insert(renderer.render_pass, pipeline)?
        ELSE IF ins.old.some
        THEN get_material_properties(st2, asset.value, ins.old.value, TRUE)
        ELSE [st |-> st2, result |-> None, gpu_work |-> TRUE]

CacheState ==
    [assets_pool |-> assets_pool, pipeline_pool |-> pipeline_pool,
     geom_pool |-> geom_pool, texture_pool |-> texture_pool,
     next_handle |-> next_handle, creates |-> creates]

\* the last two lookups, oldest first
Remember(log, entry) ==
    IF Len(log) < 2 THEN Append(log, entry) ELSE <<log[2], entry>>

InitCache ==
    /\ asset_count = 1
    /\ assets_pool = EmptyMap
    /\ pipeline_pool = EmptyMap
    /\ geom_pool = EmptyMap
    /\ texture_pool = EmptyMap
    /\ next_handle = 1
    /\ creates = EmptyMap
    /\ lookups = << >>
    /\ lookup_count = 0

\* Assets::handle: id = COUNT.fetch_add(1); pool.insert(id, asset)
AssetsHandle ==
    /\ asset_count <= MaxAssets
    /\ \E asset \in AssetValues(asset_count) :
          assets_pool' = HashMapInsert(assets_pool, asset_count, asset).map
    /\ asset_count' = asset_count + 1
    /\ UNCHANGED <<pipeline_pool, geom_pool, texture_pool, next_handle,
                   creates, lookups, lookup_count>>
    /\ UNCHANGED nonCacheVars

\* the state a lookup leaves behind
Commit(op, id, render_pass, kind, r) ==
    /\ lookup_count < MaxLookups
    /\ lookup_count' = lookup_count + 1
    /\ pipeline_pool' = r.st.pipeline_pool
    /\ geom_pool' = r.st.geom_pool
    /\ texture_pool' = r.st.texture_pool
    /\ next_handle' = r.st.next_handle
    /\ creates' = r.st.creates
    /\ lookups' = Remember(lookups,
                     [op |-> op, id |-> id, render_pass |-> render_pass,
                      registered |-> AssetsLoadOpt(assets_pool, id, kind).some,
                      result |-> r.result, gpu_work |-> r.gpu_work])
    /\ UNCHANGED <<asset_count, assets_pool>>
    /\ UNCHANGED nonCacheVars

GetTexture ==
    \E id \in 1 .. MaxAssets :
        Commit("get_texture", id, "none", "texture", get_texture(CacheState, id))

GetGeom ==
    \E id \in 1 .. MaxAssets :
        Commit("get_geom", id, "none", "geom", get_geom(CacheState, id))

GetPipeline ==
    \E id \in 1 .. MaxAssets, rp \in RenderPasses :
        Commit("get_pipeline", id, rp, "material", get_pipeline(CacheState, id, rp))

GetMaterial ==
    \E id \in 1 .. MaxAssets, rp \in RenderPasses :
        Commit("get_material", id, rp, "material", get_material(CacheState, id, rp))

NextCache ==
    \/ AssetsHandle
    \/ GetTexture
    \/ GetGeom
    \/ GetPipeline
    \/ GetMaterial

\* ------------------------------------------------------------------------
\* renderer::ForwardRenderer::render(command_buffer, context, image_index,
\* frame_index): the prepare loop and the record loop over context.objects
\* ------------------------------------------------------------------------

\* number of render objects in a batch
MaxObjects == 2

\* number of render calls of the forward renderer the model follows
MaxRenders == 2

\* the asset store of a scene, as five Assets::handle calls leave it:
\* a geometry, a texture, two textured materials, a material without texture
SceneAssets ==
    <<[kind |-> "geom"],
      [kind |-> "texture"],
      [kind |-> "material", shading |-> ShadingLoad, texture |-> Some(2)],
      [kind |-> "material", shading |-> ShadingLoad, texture |-> Some(2)],
      [kind |-> "material", shading |-> ShadingLoad, texture |-> None]>>

\* a handle whose id Assets::handle has never given out
Unregistered == Len(SceneAssets) + 1

GeomHandles == {1, Unregistered}
MaterialHandles == {3, 4, 5, Unregistered}
Models == {"M1", "M2"}

\* RenderObject::new(geom, material, model)
RenderObjects ==
    [geom : GeomHandles, material : MaterialHandles, model : Models]

\* context.objects
Batches == UNION {[1 .. n -> RenderObjects] : n \in 0 .. MaxObjects}

\* Assets::load: pool.get(&handle.id).unwrap().downcast_ref::<T>().expect(..)
\* panics for a handle the pool does not hold and for one of another type
AssetsLoadPanics(pool, id, kind) ==
    ~(id \in DOMAIN pool /\ pool[id].kind = kind)

\* shading_cache.get(&material.id)
ShadingCacheGet_wrong(cache, material) ==
    IF DOMAIN cache = {} THEN None
    ELSE Some(cache[CHOOSE m \in DOMAIN cache : TRUE])
ShadingCacheGet(cache, material) == HashMapGet(cache, material)

\* gpu.create_descriptor_sets(pool, &vec![layout; FRAMES_IN_FLIGHT]):
\* one new descriptor set per frame slot
create_descriptor_sets(next) == [f \in Slots |-> next + f]

\* depth_compare_op(if depth_reverse_z { GREATER } else { LESS })
DepthCompareOp_wrong(reverse_z) == "LESS"
DepthCompareOp(reverse_z) == IF reverse_z THEN "GREATER" ELSE "LESS"

\* ClearDepthStencilValue { depth: if depth_reverse_z { 0.0 } else { 1.0 } },
\* the depth written as the integer it equals
ClearDepth(reverse_z) == IF reverse_z THEN 0 ELSE 1

\* create_pipeline: the depth compare operator is fixed in the pipeline
\* from the renderer's flag at the time of creation
create_pipeline(next) ==
    [pipeline |-> next, pipeline_layout |-> next,
     depth_compare_op |-> DepthCompareOp(depth_reverse_z)]

\* ForwardRenderer::preprocess_material: ShadingDef::load gives the Unlit
\* definition, so the Err return is never taken
preprocess_material(sc, pc_, next, material) ==
    LET def == ShadingLoad
        pipeline_hit == HashMapGet(pc_, def.id)
        pipeline == IF pipeline_hit.some THEN pipeline_hit.value
                    ELSE create_pipeline(next)
        pc1 == IF pipeline_hit.some THEN pc_
               ELSE HashMapInsert(pc_, def.id, pipeline).map
        next1 == IF pipeline_hit.some THEN next ELSE next + 1
        shading == [pipeline |-> pipeline,
                    descriptor_sets |-> create_descriptor_sets(next1)]
    IN  IF ShadingCacheGet(sc, material).some
        THEN [shading_cache |-> sc, pipeline_cache |-> pc_, next |-> next]
        ELSE [shading_cache |-> HashMapInsert(sc, material, shading).map,
              pipeline_cache |-> pc1,
              next |-> next1 + MAX_FRAMES_IN_FLIGHT]

\* ObjectData { model: object.model }
ObjectData(object) == [model |-> object.model]

InitRender ==
    /\ objects \in Batches
    /\ r_frame = 0
    /\ rpc = "idle"
    /\ obj_i = 1
    /\ shading_cache = EmptyMap
    /\ pipeline_cache = EmptyMap
    /\ geom_cache = EmptyMap
    /\ texture_cache = EmptyMap
    /\ r_next = 1
    /\ cmds = << >>
    /\ writes = << >>
    /\ uniform_buffers = [f \in Slots |-> 0]
    /\ renders = 0
    /\ depth_reverse_z = FALSE
    /\ z_changed = FALSE

\* render is entered: align.copy_from_slice(&[scene_data]) writes the scene
\* uniform of this frame slot
RenderStart ==
    /\ rpc \in {"idle", "done"}
    /\ renders < MaxRenders
    /\ renders' = renders + 1
    /\ r_frame' = renders % MAX_FRAMES_IN_FLIGHT
    /\ uniform_buffers' =
          [uniform_buffers EXCEPT ![renders % MAX_FRAMES_IN_FLIGHT] = renders + 1]
    /\ cmds' = << >>
    /\ writes' = << >>
    /\ obj_i' = 1
    /\ rpc' = "prepare"
    /\ UNCHANGED <<depth_reverse_z, z_changed, objects, shading_cache, pipeline_cache, geom_cache,
                   texture_cache, r_next>>
    /\ UNCHANGED nonRenderVars

\* the prepare loop has passed the last object: cmd_set_viewport,
\* cmd_set_scissor, cmd_begin_render_pass
PrepareEnd ==
    /\ rpc = "prepare"
    /\ obj_i > Len(objects)
    /\ cmds' = Append(cmds, [op |-> "begin_render_pass",
                              clear_depth |-> ClearDepth(depth_reverse_z)])
    /\ obj_i' = 1
    /\ rpc' = "record"
    /\ UNCHANGED <<depth_reverse_z, z_changed, objects, r_frame, shading_cache, pipeline_cache, geom_cache,
                   texture_cache, r_next, writes, uniform_buffers, renders>>
    /\ UNCHANGED nonRenderVars

\* one pass of the prepare loop's closure
PrepareObject ==
    /\ rpc = "prepare"
    /\ obj_i <= Len(objects)
    /\ LET object == objects[obj_i]
           pre == preprocess_material(shading_cache, pipeline_cache, r_next,
                                      object.material)
           shading == ShadingCacheGet(pre.shading_cache, object.material)
           material == assets_pool[object.material]
           texture == material.texture
           tex_hit == HashMapGet(texture_cache, texture.value)
           tex_gpu == IF tex_hit.some THEN tex_hit.value
                      ELSE [image_view |-> pre.next, image_sampler |-> pre.next]
       IN  /\ shading_cache' = pre.shading_cache
           /\ pipeline_cache' = pre.pipeline_cache
           /\ IF ~shading.some
              THEN \* let Some(shading) = .. else return
                   /\ obj_i' = obj_i + 1
                   /\ r_next' = pre.next
                   /\ UNCHANGED <<rpc, texture_cache, writes>>
              ELSE IF AssetsLoadPanics(assets_pool, object.material, "material")
              THEN \* assets.load(&object.material)
                   /\ rpc' = "panicked"
                   /\ r_next' = pre.next
                   /\ UNCHANGED <<obj_i, texture_cache, writes>>
              ELSE IF ~texture.some
              THEN \* let Some(texture) = &material.tex else return
                   /\ obj_i' = obj_i + 1
                   /\ r_next' = pre.next
                   /\ UNCHANGED <<rpc, texture_cache, writes>>
              ELSE IF ~tex_hit.some
                      /\ AssetsLoadPanics(assets_pool, texture.value, "texture")
              THEN \* assets.load(&texture)
                   /\ rpc' = "panicked"
                   /\ r_next' = pre.next
                   /\ UNCHANGED <<obj_i, texture_cache, writes>>
              ELSE \* device.update_descriptor_sets(&[texture_write, sampler_write], &[])
                   /\ texture_cache' =
                         IF tex_hit.some THEN texture_cache
                         ELSE HashMapInsert(texture_cache, texture.value, tex_gpu).map
                   /\ r_next' = IF tex_hit.some THEN pre.next ELSE pre.next + 1
                   /\ writes' = Append(writes,
                         [obj |-> obj_i,
                          dst_set |-> shading.value.descriptor_sets[r_frame],
                          image_view |-> tex_gpu.image_view,
                          sampler |-> tex_gpu.image_sampler])
                   /\ obj_i' = obj_i + 1
                   /\ UNCHANGED rpc
    /\ UNCHANGED <<depth_reverse_z, z_changed, objects, r_frame, geom_cache, cmds, uniform_buffers, renders>>
    /\ UNCHANGED nonRenderVars

\* one pass of the record loop's closure
RecordObject ==
    /\ rpc = "record"
    /\ obj_i <= Len(objects)
    /\ LET object == objects[obj_i]
           shading == ShadingCacheGet(shading_cache, object.material)
           geom_hit == HashMapGet(geom_cache, object.geom)
           geom == IF geom_hit.some THEN geom_hit.value
                   ELSE [vertex_buffer |-> r_next, index_buffer |-> r_next]
       IN  IF ~shading.some
           THEN \* let Some(shading) = .. else return
                /\ obj_i' = obj_i + 1
                /\ UNCHANGED <<rpc, geom_cache, r_next, cmds>>
           ELSE IF ~geom_hit.some
                   /\ AssetsLoadPanics(assets_pool, object.geom, "geom")
           THEN \* assets.load(&object.geom)
                /\ rpc' = "panicked"
                /\ UNCHANGED <<obj_i, geom_cache, r_next, cmds>>
           ELSE /\ geom_cache' =
                      IF geom_hit.some THEN geom_cache
                      ELSE HashMapInsert(geom_cache, object.geom, geom).map
                /\ r_next' = IF geom_hit.some THEN r_next ELSE r_next + 1
                /\ cmds' = cmds \o
                      <<[op |-> "push_constants", obj |-> obj_i,
                         data |-> ObjectData(object)],
                        [op |-> "bind_descriptor_sets", obj |-> obj_i,
                         set0 |-> <<"scene", r_frame>>,
                         set1 |-> shading.value.descriptor_sets[r_frame]],
                        [op |-> "bind_pipeline", obj |-> obj_i,
                         pipeline |-> shading.value.pipeline.pipeline,
                         depth_compare_op |->
                             shading.value.pipeline.depth_compare_op],
                        [op |-> "bind_vertex_buffers", obj |-> obj_i,
                         buffer |-> geom.vertex_buffer],
                        [op |-> "bind_index_buffer", obj |-> obj_i,
                         buffer |-> geom.index_buffer],
                        [op |-> "draw_indexed", obj |-> obj_i]>>
                /\ obj_i' = obj_i + 1
                /\ UNCHANGED rpc
    /\ UNCHANGED <<depth_reverse_z, z_changed, objects, r_frame, shading_cache, pipeline_cache,
                   texture_cache, writes, uniform_buffers, renders>>
    /\ UNCHANGED nonRenderVars

\* the record loop has passed the last object: cmd_end_render_pass
RecordEnd ==
    /\ rpc = "record"
    /\ obj_i > Len(objects)
    /\ cmds' = Append(cmds, [op |-> "end_render_pass"])
    /\ rpc' = "done"
    /\ UNCHANGED <<depth_reverse_z, z_changed, objects, r_frame, obj_i, shading_cache, pipeline_cache,
                   geom_cache, texture_cache, r_next, writes, uniform_buffers,
                   renders>>
    /\ UNCHANGED nonRenderVars

\* forward_renderer.depth_reverse_z = b: the field is public and is set
\* between render calls (Mirage::new sets it to true before the first one)
SetDepthReverseZ(b) ==
    /\ rpc \in {"idle", "done"}
    /\ b # depth_reverse_z
    /\ depth_reverse_z' = b
    /\ z_changed' = (z_changed \/ pipeline_cache # EmptyMap)
    /\ UNCHANGED <<objects, r_frame, rpc, obj_i, shading_cache,
                   pipeline_cache, geom_cache, texture_cache, r_next, cmds,
                   writes, uniform_buffers, renders>>
    /\ UNCHANGED nonRenderVars

NextRender ==
    \/ RenderStart
    \/ PrepareObject
    \/ PrepareEnd
    \/ RecordObject
    \/ RecordEnd
    \/ \E b \in BOOLEAN : SetDepthReverseZ(b)

\* ------------------------------------------------------------------------
\* VkDeviceContext::pick_physical_device, rate_physical_device_suitability
\* and find_queue_families
\* ------------------------------------------------------------------------

\* number of physical devices the instance enumerates
MaxDevices == 2

\* number of queue families a physical device of the enumeration reports
MaxDeviceFamilies == 1

\* number of queue families find_queue_families is given on its own
MaxFamilies == 3

\* vk::PhysicalDeviceType
DeviceTypes == {"DISCRETE_GPU", "INTEGRATED_GPU", "VIRTUAL_GPU", "CPU", "OTHER"}

\* values of limits.max_image_dimension2_d
ImageDimensions == {4096, 16384}

\* a queue family: its GRAPHICS and COMPUTE queue flags and whether
\* get_physical_device_surface_support holds for it
QueueFamilies == [graphics : BOOLEAN, compute : BOOLEAN, present : BOOLEAN]

\* what the instance reports of one physical device: properties, features,
\* queue families, whether every entry of DEVICE_EXTENSIONS is supported, and
\* whether the surface lists any format and any present mode
PhysicalDevices ==
    [device_type : DeviceTypes,
     max_image_dimension2_d : ImageDimensions,
     families : UNION {[1 .. n -> QueueFamilies] : n \in 0 .. MaxDeviceFamilies},
     extensions : BOOLEAN,
     sampler_anisotropy : BOOLEAN,
     formats : BOOLEAN,
     present_modes : BOOLEAN]

\* find_queue_families, first loop: the first graphics family, replaced by
\* the first graphics family that also presents (break)
RECURSIVE FindGraphicsPresent_wrong(_, _, _)
FindGraphicsPresent_wrong(families, i, graphic) ==
    IF i > Len(families) THEN [graphic |-> graphic, present |-> None]
    ELSE IF families[i].graphics
    THEN IF families[i].present
         THEN [graphic |-> IF graphic.some THEN graphic ELSE Some(i - 1),
               present |-> Some(i - 1)]
         ELSE FindGraphicsPresent_wrong(families, i + 1,
                                  IF graphic.some THEN graphic ELSE Some(i - 1))
    ELSE FindGraphicsPresent_wrong(families, i + 1, graphic)
RECURSIVE FindGraphicsPresent(_, _, _)
FindGraphicsPresent(families, i, graphic) ==
    IF i > Len(families) THEN [graphic |-> graphic, present |-> None]
    ELSE IF families[i].graphics
    THEN IF families[i].present
         THEN [graphic |-> Some(i - 1), present |-> Some(i - 1)]
         ELSE FindGraphicsPresent(families, i + 1,
                                  IF graphic.some THEN graphic ELSE Some(i - 1))
    ELSE FindGraphicsPresent(families, i + 1, graphic)

\* find_queue_families, second loop: the first family that presents
RECURSIVE FindPresent(_, _)
FindPresent(families, i) ==
    IF i > Len(families) THEN None
    ELSE IF families[i].present THEN Some(i - 1)
    ELSE FindPresent(families, i + 1)

\* find_queue_families, third loop over the compute families
RECURSIVE FindCompute(_, _, _, _)
FindCompute(families, i, graphic, compute) ==
    IF i > Len(families) THEN compute
    ELSE IF families[i].compute
    THEN LET c1 == IF compute.some THEN compute ELSE Some(i - 1)
         IN  IF c1 # graphic THEN Some(i - 1)
             ELSE FindCompute(families, i + 1, graphic, c1)
    ELSE FindCompute(families, i + 1, graphic, compute)

\* VkDeviceContext::find_queue_families
find_queue_families(families) ==
    LET gp == FindGraphicsPresent(families, 1, None)
    IN  [graphic |-> gp.graphic,
         present |-> IF gp.present.some THEN gp.present
                     ELSE FindPresent(families, 1),
         compute |-> FindCompute(families, 1, gp.graphic, None)]

\* the score of the device type
TypeScore(device_type) ==
    CASE device_type = "DISCRETE_GPU" -> 10000
      [] device_type = "INTEGRATED_GPU" -> 1000
      [] device_type = "VIRTUAL_GPU" -> 100
      [] device_type = "CPU" -> 10
      [] OTHER -> 0

\* VkDeviceContext::rate_physical_device_suitability
rate_physical_device_suitability_wrong(d) ==
    LET q == find_queue_families(d.families)
    IN  IF \/ ~q.graphic.some
           \/ ~q.present.some
           \/ ~q.compute.some
           \/ ~d.extensions
        THEN 0
        ELSE IF ~d.formats \/ ~d.present_modes THEN 0
        ELSE TypeScore(d.device_type) + d.max_image_dimension2_d
rate_physical_device_suitability(d) ==
    LET q == find_queue_families(d.families)
    IN  IF \/ ~q.graphic.some
           \/ ~q.present.some
           \/ ~q.compute.some
           \/ ~d.extensions
           \/ ~d.sampler_anisotropy
        THEN 0
        ELSE IF ~d.formats \/ ~d.present_modes THEN 0
        ELSE TypeScore(d.device_type) + d.max_image_dimension2_d

\* BTreeMap::first_key_value: the entry with the smallest key
first_key_value(map) ==
    IF DOMAIN map = {} THEN None
    ELSE LET k == CHOOSE x \in DOMAIN map : \A y \in DOMAIN map : x <= y
         IN  Some([key |-> k, value |-> map[k]])

\* the device fails one of the disqualifying checks
FailsCheck(d) ==
    \/ ~\E i \in 1 .. Len(d.families) : d.families[i].graphics
    \/ ~\E i \in 1 .. Len(d.families) : d.families[i].present
    \/ ~\E i \in 1 .. Len(d.families) : d.families[i].compute
    \/ ~d.extensions
    \/ ~d.sampler_anisotropy
    \/ ~d.formats
    \/ ~d.present_modes

InitDevice ==
    /\ score_map = EmptyMap
    /\ devices_seen = << >>
    /\ dpc = "enumerate"
    /\ physical_device = 0

\* one step of physical_devices.into_iter().map(..).collect(): the next
\* device is rated and (score, device) goes into the BTreeMap
RateDevice ==
    /\ dpc = "enumerate"
    /\ Len(devices_seen) < MaxDevices
    /\ \E d \in PhysicalDevices :
          LET score == rate_physical_device_suitability(d)
              index == Len(devices_seen) + 1
          IN  /\ score_map' = HashMapInsert(score_map, score, index).map
              /\ devices_seen' = Append(devices_seen,
                    [score |-> score, device_type |-> d.device_type,
                     fails |-> FailsCheck(d),
                     sampler_anisotropy |-> d.sampler_anisotropy])
    /\ UNCHANGED <<dpc, physical_device>>
    /\ UNCHANGED nonDeviceVars

\* match score_map.first_key_value() { Some((count, device)) if *count > 0
\* => *device, _ => panic!(..) }
PickPhysicalDevice ==
    /\ dpc = "enumerate"
    /\ LET first == first_key_value(score_map)
       IN  IF first.some /\ first.value.key > 0
           THEN /\ physical_device' = first.value.value
                /\ dpc' = "picked"
           ELSE /\ physical_device' = physical_device
                /\ dpc' = "panicked"
    /\ UNCHANGED <<score_map, devices_seen>>
    /\ UNCHANGED nonDeviceVars

NextDevice ==
    \/ RateDevice
    \/ PickPhysicalDevice

\* ------------------------------------------------------------------------
\* Specifications
\* ------------------------------------------------------------------------

\* ---------------------------------------------------------------------
\* Queue family resolution (gpu/vk_device_context.rs, find_queue_families)
\* ---------------------------------------------------------------------

\* get_physical_device_queue_family_properties with the surface support of
\* each family: any list of at most MaxFamilies families
QueueFamilyLists == UNION {[1 .. n -> QueueFamilies] : n \in 0 .. MaxFamilies}

InitQueue ==
    /\ q_properties \in QueueFamilyLists
    /\ queue_families = [graphic |-> None, present |-> None, compute |-> None]
    /\ qpc = "start"

\* the call of find_queue_families on the reported families
FindQueueFamilies ==
    /\ qpc = "start"
    /\ queue_families' = find_queue_families(q_properties)
    /\ qpc' = "done"
    /\ UNCHANGED q_properties
    /\ UNCHANGED nonQueueVars

NextQueue ==
    \/ FindQueueFamilies

\* a device that reports no queue family
QueueParked == q_properties = << >> /\ InitQueue

\* ---------------------------------------------------------------------
\* Swap chain creation (gpu/swap_chain.rs, create_swap_chain)
\* ---------------------------------------------------------------------

\* largest min_image_count, largest max_image_count and longest list of
\* present modes a surface reports
MaxMinImageCount == 3
MaxMaxImageCount == 4
MaxPresentModes == 2

PresentModes == {"IMMEDIATE", "MAILBOX", "FIFO", "FIFO_RELAXED"}

\* get_physical_device_surface_present_modes: a non-empty list (a device with
\* an empty list scores 0 and is not used)
PresentModeLists == UNION {[1 .. n -> PresentModes] : n \in 1 .. MaxPresentModes}

\* present_modes.iter().cloned().find(|m| m == MAILBOX)
RECURSIVE FindMailbox(_, _)
FindMailbox(present_modes, i) ==
    IF i > Len(present_modes) THEN None
    ELSE IF present_modes[i] = "MAILBOX" THEN Some(present_modes[i])
    ELSE FindMailbox(present_modes, i + 1)

\* SwapChain::choose_surface_present_mode: .find(..).unwrap_or(FIFO)
choose_surface_present_mode_wrong(present_modes) ==
    LET found == FindMailbox(present_modes, 1)
    IN  IF found.some THEN found.value ELSE present_modes[1]
choose_surface_present_mode(present_modes) ==
    LET found == FindMailbox(present_modes, 1)
    IN  IF found.some THEN found.value ELSE "FIFO"

\* Ord::clamp(self, min, max): asserts min <= max, then bounds self
ClampPanics(min, max) == min > max

Clamp(value, min, max) ==
    IF value < min THEN min ELSE IF value > max THEN max ELSE value

\* the surface capabilities Vulkan allows: min_image_count at least 1, and
\* max_image_count either 0 (no upper limit) or at least min_image_count
InitSwap ==
    /\ surface_present_modes \in PresentModeLists
    /\ min_image_count \in 1 .. MaxMinImageCount
    /\ max_image_count \in {0} \cup (min_image_count .. MaxMaxImageCount)
    /\ present_mode = "none"
    /\ image_count = 0
    /\ spc = "start"

\* SwapChain::create_swap_chain: the present mode is chosen, then the image
\* count is clamped, then create_swapchain is called with both
CreateSwapChain ==
    /\ spc = "start"
    /\ present_mode' = choose_surface_present_mode(surface_present_modes)
    /\ IF ClampPanics(min_image_count, max_image_count)
       THEN /\ spc' = "panicked"
            /\ UNCHANGED image_count
       ELSE /\ image_count' = Clamp(min_image_count + 1, min_image_count,
                                    max_image_count)
            /\ spc' = "created"
    /\ UNCHANGED <<surface_present_modes, min_image_count, max_image_count>>
    /\ UNCHANGED nonSwapVars

NextSwap ==
    \/ CreateSwapChain

\* a surface that lists FIFO only and allows two to three images
SwapParked ==
    /\ surface_present_modes = <<"FIFO">>
    /\ min_image_count = 2
    /\ max_image_count = 3
    /\ InitSwap

\* ---------------------------------------------------------------------
\* Texture upload (assets/texture.rs, renderer/gpu_texture.rs, gpu/gpu.rs)
\* ---------------------------------------------------------------------

\* largest width and height of the small textures
MaxTextureSize == 8

\* widths and heights of the decoded image: the small ones and 256, 512
TextureSizes == (1 .. MaxTextureSize) \cup {256, 512}

\* 2 to the power n
RECURSIVE Pow2(_)
Pow2(n) == IF n = 0 THEN 1 ELSE 2 * Pow2(n - 1)

\* u32::min
MinU32(a, b) == IF a < b THEN a ELSE b

MaxU32(a, b) == IF a > b THEN a ELSE b

\* n as f32: exact up to 2^24, beyond that the nearest multiple of unit with
\* a 24-bit quotient, ties to even
RECURSIVE AsF32(_, _)
AsF32(n, unit) ==
    IF n \div unit <= 16777216
    THEN LET q == n \div unit
             r == n % unit
         IN  IF 2 * r < unit THEN q * unit
             ELSE IF 2 * r > unit THEN (q + 1) * unit
             ELSE IF q % 2 = 0 THEN q * unit ELSE (q + 1) * unit
    ELSE AsF32(n, 2 * unit)

\* x.log2().floor() for an integral x >= 1: the number of halvings that keep
\* x at least 1 (for x below 2^20 the f32 logarithm is nearer to the exact
\* one than to the next integer, so its floor is the exact floor)
RECURSIVE Log2Floor(_)
Log2Floor(x) == IF x < 2 THEN 0 ELSE 1 + Log2Floor(x \div 2)

\* Texture::load: ((width.min(height) as f32).log2().floor() + 1.0) as u32
MipLevels_wrong(width, height) ==
    Log2Floor(AsF32(MaxU32(width, height), 1)) + 1
MipLevels(width, height) ==
    Log2Floor(AsF32(MinU32(width, height), 1)) + 1

\* GPU::end_single_time_command: queue_submit, then device_wait_idle
end_single_time_command_wrong(sub, comp) ==
    [submitted |-> sub + 1, completed |-> comp]
end_single_time_command(sub, comp) ==
    [submitted |-> sub + 1, completed |-> sub + 1]

\* GPU::transition_image_layout: one barrier over mip levels 0 .. levels - 1
transition_image_layout(layouts, levels, new_layout) ==
    [l \in DOMAIN layouts |-> IF l < levels THEN new_layout ELSE layouts[l]]

\* GPU::generate_mipmaps, the loop for i in 1..mip_levels: level i - 1 goes to
\* TRANSFER_SRC_OPTIMAL, is blitted into level i, and goes to
\* SHADER_READ_ONLY_OPTIMAL; after the loop the last level goes to
\* SHADER_READ_ONLY_OPTIMAL
generate_mipmaps_wrong(layouts, i, levels) ==
    [l \in DOMAIN layouts |->
        IF l < levels - 1 THEN "SHADER_READ_ONLY_OPTIMAL" ELSE layouts[l]]
RECURSIVE generate_mipmaps(_, _, _)
generate_mipmaps(layouts, i, levels) ==
    IF i >= levels
    THEN [layouts EXCEPT ![levels - 1] = "SHADER_READ_ONLY_OPTIMAL"]
    ELSE generate_mipmaps(
             [layouts EXCEPT ![i - 1] = "SHADER_READ_ONLY_OPTIMAL"],
             i + 1, levels)

\* one entry of the log of calls: the call and the number of submitted
\* commands the GPU has not completed when it is made
UploadCall(op, sub, comp) == [op |-> op, pending |-> sub - comp]

InitTexture ==
    /\ tex_width \in TextureSizes
    /\ tex_height \in TextureSizes
    /\ linear_filter \in BOOLEAN
    /\ mip_levels = 0
    /\ mip_layouts = << >>
    /\ staging = "none"
    /\ submitted = 0
    /\ completed = 0
    /\ upload_log = << >>
    /\ tpc = "load"

\* Texture::load
TextureLoad ==
    /\ tpc = "load"
    /\ mip_levels' = MipLevels(tex_width, tex_height)
    /\ tpc' = "new"
    /\ UNCHANGED <<tex_width, tex_height, linear_filter, mip_layouts, staging,
                   submitted, completed, upload_log>>
    /\ UNCHANGED nonTextureVars

\* GPUTexture::new up to create_image: the staging buffer is created and
\* filled, the image is created with every mip level in UNDEFINED layout
CreateImage ==
    /\ tpc = "new"
    /\ staging' = "alive"
    /\ mip_layouts' = [l \in 0 .. mip_levels - 1 |-> "UNDEFINED"]
    /\ tpc' = "transition"
    /\ UNCHANGED <<tex_width, tex_height, linear_filter, mip_levels, submitted,
                   completed, upload_log>>
    /\ UNCHANGED nonTextureVars

\* gpu.transition_image_layout(image, .., mip_levels, UNDEFINED,
\* TRANSFER_DST_OPTIMAL)
TransitionToTransferDst ==
    /\ tpc = "transition"
    /\ LET e == end_single_time_command(submitted, completed)
       IN  /\ submitted' = e.submitted
           /\ completed' = e.completed
    /\ mip_layouts' = transition_image_layout(mip_layouts, mip_levels,
                                              "TRANSFER_DST_OPTIMAL")
    /\ upload_log' = Append(upload_log,
          UploadCall("transition_undefined_to_transfer_dst", submitted, completed))
    /\ tpc' = "copy"
    /\ UNCHANGED <<tex_width, tex_height, linear_filter, mip_levels, staging>>
    /\ UNCHANGED nonTextureVars

\* gpu.copy_buffer_to_image(staging_buffer, image, width, height)
CopyBufferToImage ==
    /\ tpc = "copy"
    /\ LET e == end_single_time_command(submitted, completed)
       IN  /\ submitted' = e.submitted
           /\ completed' = e.completed
    /\ upload_log' = Append(upload_log,
          UploadCall("copy_buffer_to_image", submitted, completed))
    /\ tpc' = "mips"
    /\ UNCHANGED <<tex_width, tex_height, linear_filter, mip_levels,
                   mip_layouts, staging>>
    /\ UNCHANGED nonTextureVars

\* if mip_levels > 1 { gpu.generate_mipmaps(..) } else {
\* gpu.transition_image_layout(.., 1, TRANSFER_DST_OPTIMAL,
\* SHADER_READ_ONLY_OPTIMAL) }; generate_mipmaps panics when the format has
\* no SAMPLED_IMAGE_FILTER_LINEAR
GenerateMipmapsOrTransition ==
    /\ tpc = "mips"
    /\ IF mip_levels > 1 /\ ~linear_filter
       THEN /\ tpc' = "panicked"
            /\ UNCHANGED <<mip_layouts, submitted, completed, upload_log>>
       ELSE /\ LET e == end_single_time_command(submitted, completed)
               IN  /\ submitted' = e.submitted
                   /\ completed' = e.completed
            /\ mip_layouts' =
                  IF mip_levels > 1
                  THEN generate_mipmaps(mip_layouts, 1, mip_levels)
                  ELSE transition_image_layout(mip_layouts, 1,
                                               "SHADER_READ_ONLY_OPTIMAL")
            /\ upload_log' = Append(upload_log,
                  UploadCall(IF mip_levels > 1 THEN "generate_mipmaps"
                             ELSE "transition_transfer_dst_to_shader_read_only",
                             submitted, completed))
            /\ tpc' = "free"
    /\ UNCHANGED <<tex_width, tex_height, linear_filter, mip_levels, staging>>
    /\ UNCHANGED nonTextureVars

\* device.free_memory(staging_memory); device.destroy_buffer(staging_buffer)
FreeStaging ==
    /\ tpc = "free"
    /\ staging' = "freed"
    /\ upload_log' = upload_log
          \o <<UploadCall("free_memory", submitted, completed),
               UploadCall("destroy_buffer", submitted, completed)>>
    /\ tpc' = "done"
    /\ UNCHANGED <<tex_width, tex_height, linear_filter, mip_levels,
                   mip_layouts, submitted, completed>>
    /\ UNCHANGED nonTextureVars

NextTexture ==
    \/ TextureLoad
    \/ CreateImage
    \/ TransitionToTransferDst
    \/ CopyBufferToImage
    \/ GenerateMipmapsOrTransition
    \/ FreeStaging

\* no texture is being uploaded
TextureParked ==
    /\ tex_width = 1
    /\ tex_height = 1
    /\ linear_filter = TRUE
    /\ InitTexture

\* ---------------------------------------------------------------------
\* Memory type search (gpu/vk_device_context.rs, find_memory_type_index)
\* ---------------------------------------------------------------------

\* largest memory_type_count
MaxMemoryTypes == 2

MemoryPropertyFlags == {"DEVICE_LOCAL", "HOST_VISIBLE", "HOST_COHERENT"}

\* physical_device_memory_properties.memory_types[0 .. memory_type_count]
MemoryTypeLists ==
    UNION {[1 .. n -> SUBSET MemoryPropertyFlags] : n \in 0 .. MaxMemoryTypes}

\* type_bits & (1 << i) != 0
TypeBitSet(bits, i) == (bits \div Pow2(i)) % 2 = 1

\* the loop for i in 0..memory_type_count: the first index allowed by the
\* mask whose property_flags contain the requested ones
RECURSIVE FindMemoryType_wrong(_, _, _, _)
FindMemoryType_wrong(types, bits, flags, i) ==
    IF i >= Len(types) THEN None
    ELSE IF ~TypeBitSet(bits, i)
    THEN FindMemoryType_wrong(types, bits, flags, i + 1)
    ELSE IF flags \cap types[i + 1] = {}
    THEN FindMemoryType_wrong(types, bits, flags, i + 1)
    ELSE Some(i)
RECURSIVE FindMemoryType(_, _, _, _)
FindMemoryType(types, bits, flags, i) ==
    IF i >= Len(types) THEN None
    ELSE IF ~TypeBitSet(bits, i)
    THEN FindMemoryType(types, bits, flags, i + 1)
    ELSE IF ~(flags \subseteq types[i + 1])
    THEN FindMemoryType(types, bits, flags, i + 1)
    ELSE Some(i)

InitMemory ==
    /\ memory_types \in MemoryTypeLists
    /\ type_bits \in 0 .. Pow2(MaxMemoryTypes) - 1
    /\ property_flags \in SUBSET MemoryPropertyFlags
    /\ memory_type_index = None
    /\ mpc = "start"

\* VkDeviceContext::find_memory_type_index: return i, or
\* panic!("failed to find suitable memory type!")
FindMemoryTypeIndex ==
    /\ mpc = "start"
    /\ LET found == FindMemoryType(memory_types, type_bits, property_flags, 0)
       IN  /\ memory_type_index' = found
           /\ mpc' = IF found.some THEN "returned" ELSE "panicked"
    /\ UNCHANGED <<memory_types, type_bits, property_flags>>
    /\ UNCHANGED nonMemoryVars

NextMemory ==
    \/ FindMemoryTypeIndex

\* no allocation is being made
MemoryParked ==
    /\ memory_types = << >>
    /\ type_bits = 0
    /\ property_flags = {}
    /\ InitMemory

\* ---------------------------------------------------------------------
\* Shutdown (mirage.rs, renderer/gpu_assets.rs, renderer/forward_renderer.rs,
\* gpu/gpu.rs)
\* ---------------------------------------------------------------------

\* resources of each cache kind created before shutdown
MaxResources == 2

\* a Vulkan object: its owner, the index of the owner's resource, the field
Obj(owner, index, part) == <<owner, index, part>>

\* one Vulkan call of the shutdown
Call(call, obj) == [call |-> call, obj |-> obj]

\* the concatenation of a sequence of sequences
RECURSIVE Flatten(_)
Flatten(seqs) ==
    IF seqs = << >> THEN << >> ELSE Head(seqs) \o Flatten(Tail(seqs))

\* the objects GPUTexture::new, GPUGeom::new and GPUPipeline::new create
TextureObjects(owner, k) ==
    {Obj(owner, k, p) : p \in {"image", "image_memory", "image_view",
                               "image_sampler"}}

GeomObjects(owner, k) ==
    {Obj(owner, k, p) : p \in {"vertex_buffer", "vertex_buffer_memory",
                               "index_buffer", "index_buffer_memory"}}

PipelineObjects(owner, k) ==
    {Obj(owner, k, p) : p \in {"descriptor_set_layout", "shader_module",
                               "pipeline", "pipeline_layout"}}

\* Mirage::initialize: one geom and two textures, held by three objects
\* (Geom and Texture are Copy: the objects hold the same Vulkan handles)
MirageObjects ==
    <<[geom |-> 1, tex |-> Some(1)],
      [geom |-> 1, tex |-> Some(2)],
      [geom |-> 1, tex |-> Some(2)]>>

\* Mirage::initialize and ForwardRenderer::new: what exists before any
\* cached resource is created
StartupObjects ==
    GeomObjects("object_geom", 1)
    \cup TextureObjects("object_tex", 1) \cup TextureObjects("object_tex", 2)
    \cup {Obj("mirage", s, p) : s \in Slots,
              p \in {"image_available_semaphore", "render_finished_semaphore",
                     "in_flight_fence"}}
    \cup {Obj("mirage", 0, "command_pool")}
    \cup {Obj("renderer", s, p) : s \in Slots,
              p \in {"uniform_buffer", "uniform_buffer_memory"}}
    \cup {Obj("renderer", 0, p) :
              p \in {"framebuffer", "color_image", "color_image_memory",
                     "color_image_view", "depth_image", "depth_image_memory",
                     "depth_image_view", "render_pass", "descriptor_set_layout",
                     "descriptor_pool"}}
    \cup {Obj("gpu", 0, p) :
              p \in {"swap_chain_image_view", "swap_chain",
                     "transient_command_pool", "device"}}

\* device.device_wait_idle(): returns when the GPU has finished every
\* submitted frame
device_wait_idle_wrong(in_flight) == in_flight
device_wait_idle(in_flight) == 0

\* GPUTexture::drop: unsafe {}
GPUTextureDrop(owner, k) == << >>

\* GPUGeom::drop
GPUGeomDrop(owner, k) ==
    <<Call("destroy_buffer", Obj(owner, k, "vertex_buffer")),
      Call("free_memory", Obj(owner, k, "vertex_buffer_memory")),
      Call("destroy_buffer", Obj(owner, k, "index_buffer")),
      Call("free_memory", Obj(owner, k, "index_buffer_memory"))>>

\* GPUPipeline::drop
GPUPipelineDrop(owner, k) ==
    <<Call("destroy_descriptor_set_layout", Obj(owner, k, "descriptor_set_layout")),
      Call("destroy_shader_module", Obj(owner, k, "shader_module")),
      Call("destroy_pipeline", Obj(owner, k, "pipeline")),
      Call("destroy_pipeline_layout", Obj(owner, k, "pipeline_layout"))>>

\* impl Drop for GPUAssets: the pipelines, the geoms, the textures (each pool
\* in the order of its indices)
GPUAssetsDrop(textures, geoms, pipelines) ==
    Flatten([k \in 1 .. pipelines |-> GPUPipelineDrop("pool_pipeline", k)])
    \o Flatten([k \in 1 .. geoms |-> GPUGeomDrop("pool_geom", k)])
    \o Flatten([k \in 1 .. textures |-> GPUTextureDrop("pool_texture", k)])

\* impl Drop for Mirage, the closure over self.objects
MirageDropObject(obj) ==
    (IF obj.tex.some
     THEN <<Call("destroy_image", Obj("object_tex", obj.tex.value, "image")),
            Call("destroy_sampler", Obj("object_tex", obj.tex.value, "image_sampler")),
            Call("destroy_image_view", Obj("object_tex", obj.tex.value, "image_view")),
            Call("free_memory", Obj("object_tex", obj.tex.value, "image_memory"))>>
     ELSE << >>)
    \o GPUGeomDrop("object_geom", obj.geom)

\* impl Drop for Mirage
MirageDrop ==
    <<Call("device_wait_idle", Obj("gpu", 0, "device"))>>
    \o Flatten([i \in 1 .. Len(MirageObjects) |-> MirageDropObject(MirageObjects[i])])
    \o [s \in 1 .. MAX_FRAMES_IN_FLIGHT |->
           Call("destroy_semaphore", Obj("mirage", s - 1, "image_available_semaphore"))]
    \o [s \in 1 .. MAX_FRAMES_IN_FLIGHT |->
           Call("destroy_semaphore", Obj("mirage", s - 1, "render_finished_semaphore"))]
    \o [s \in 1 .. MAX_FRAMES_IN_FLIGHT |->
           Call("destroy_fence", Obj("mirage", s - 1, "in_flight_fence"))]
    \o <<Call("destroy_command_pool", Obj("mirage", 0, "command_pool"))>>

\* ForwardRenderer::clear_cache: the pipelines of the renderer's own
\* pipeline_cache, which is empty when the resources are cached by GPUAssets
clear_cache == << >>

\* impl Drop for ForwardRenderer (renderer/forward_renderer.rs)
ForwardRendererDrop ==
    clear_cache
    \o [s \in 1 .. MAX_FRAMES_IN_FLIGHT |->
           Call("destroy_buffer", Obj("renderer", s - 1, "uniform_buffer"))]
    \o [s \in 1 .. MAX_FRAMES_IN_FLIGHT |->
           Call("free_memory", Obj("renderer", s - 1, "uniform_buffer_memory"))]
    \o <<Call("destroy_framebuffer", Obj("renderer", 0, "framebuffer")),
         Call("destroy_image", Obj("renderer", 0, "color_image")),
         Call("free_memory", Obj("renderer", 0, "color_image_memory")),
         Call("destroy_image_view", Obj("renderer", 0, "color_image_view")),
         Call("destroy_image", Obj("renderer", 0, "depth_image")),
         Call("free_memory", Obj("renderer", 0, "depth_image_memory")),
         Call("destroy_image_view", Obj("renderer", 0, "depth_image_view")),
         Call("destroy_render_pass", Obj("renderer", 0, "render_pass")),
         Call("destroy_descriptor_set_layout", Obj("renderer", 0, "descriptor_set_layout")),
         Call("destroy_descriptor_pool", Obj("renderer", 0, "descriptor_pool"))>>

\* impl Drop for GPU
GPUDrop ==
    <<Call("device_wait_idle", Obj("gpu", 0, "device")),
      Call("destroy_image_view", Obj("gpu", 0, "swap_chain_image_view")),
      Call("destroy_swapchain", Obj("gpu", 0, "swap_chain")),
      Call("destroy_command_pool", Obj("gpu", 0, "transient_command_pool")),
      Call("destroy_device", Obj("gpu", 0, "device"))>>

\* the calls made in order while the GPU still runs in_flight frames: each
\* call with the number of unfinished frames when it returns
RECURSIVE RunCalls(_, _)
RunCalls(cs, in_flight) ==
    IF cs = << >> THEN [log |-> << >>, in_flight |-> in_flight]
    ELSE LET n == IF Head(cs).call = "device_wait_idle"
                  THEN device_wait_idle(in_flight) ELSE in_flight
             rest == RunCalls(Tail(cs), n)
         IN  [log |-> <<[call |-> Head(cs).call, obj |-> Head(cs).obj,
                         in_flight |-> n]>> \o rest.log,
              in_flight |-> rest.in_flight]

\* the application runs: Rc<GPU> is held by Mirage, by the ForwardRenderer
\* and by GPUAssets; up to MAX_FRAMES_IN_FLIGHT frames are submitted
InitTeardown ==
    /\ pool_textures = 0
    /\ pool_geoms = 0
    /\ pool_pipelines = 0
    /\ td_created = StartupObjects
    /\ gpu_in_flight \in 0 .. MAX_FRAMES_IN_FLIGHT
    /\ rc_gpu = 3
    /\ dropped = {}
    /\ td_log = << >>
    /\ tdpc = "running"

\* GPUTexture::new on a cache miss of get_texture
CreateCachedTexture ==
    /\ tdpc = "running"
    /\ pool_textures < MaxResources
    /\ pool_textures' = pool_textures + 1
    /\ td_created' = td_created \cup TextureObjects("pool_texture", pool_textures + 1)
    /\ UNCHANGED <<pool_geoms, pool_pipelines, gpu_in_flight, rc_gpu, dropped,
                   td_log, tdpc>>
    /\ UNCHANGED nonTeardownVars

\* GPUGeom::new on a cache miss of get_geom
CreateCachedGeom ==
    /\ tdpc = "running"
    /\ pool_geoms < MaxResources
    /\ pool_geoms' = pool_geoms + 1
    /\ td_created' = td_created \cup GeomObjects("pool_geom", pool_geoms + 1)
    /\ UNCHANGED <<pool_textures, pool_pipelines, gpu_in_flight, rc_gpu,
                   dropped, td_log, tdpc>>
    /\ UNCHANGED nonTeardownVars

\* GPUPipeline::new on a cache miss of get_pipeline
CreateCachedPipeline ==
    /\ tdpc = "running"
    /\ pool_pipelines < MaxResources
    /\ pool_pipelines' = pool_pipelines + 1
    /\ td_created' = td_created \cup PipelineObjects("pool_pipeline", pool_pipelines + 1)
    /\ UNCHANGED <<pool_textures, pool_geoms, gpu_in_flight, rc_gpu, dropped,
                   td_log, tdpc>>
    /\ UNCHANGED nonTeardownVars

\* the GPU finishes a submitted frame
GpuFinishFrame ==
    /\ gpu_in_flight > 0
    /\ gpu_in_flight' = gpu_in_flight - 1
    /\ UNCHANGED <<pool_textures, pool_geoms, pool_pipelines, td_created,
                   rc_gpu, dropped, td_log, tdpc>>
    /\ UNCHANGED nonTeardownVars

\* one step of the shutdown: the calls of a component are made in order
TeardownStep(cs, component, next_pc) ==
    /\ LET run == RunCalls(cs, gpu_in_flight)
       IN  /\ td_log' = td_log \o run.log
           /\ gpu_in_flight' = run.in_flight
    /\ dropped' = dropped \cup {component}
    /\ tdpc' = next_pc
    /\ UNCHANGED <<pool_textures, pool_geoms, pool_pipelines, td_created>>
    /\ UNCHANGED nonTeardownVars

\* the Application drops Mirage: the body of Mirage::drop runs, then the
\* field gpu releases its Rc<GPU>
DropMirage ==
    /\ tdpc = "running"
    /\ rc_gpu' = rc_gpu - 1
    /\ TeardownStep(MirageDrop, "Mirage", "fields")

\* the field forward_renderer is dropped: ForwardRenderer::drop, then its
\* field gpu releases its Rc<GPU>
DropForwardRenderer ==
    /\ tdpc = "fields"
    /\ "ForwardRenderer" \notin dropped
    /\ rc_gpu' = rc_gpu - 1
    /\ TeardownStep(ForwardRendererDrop, "ForwardRenderer", "fields")

\* GPUAssets is dropped, before or after the ForwardRenderer: GPUAssets::drop,
\* then its field gpu releases its Rc<GPU>
DropGPUAssets ==
    /\ tdpc = "fields"
    /\ "GPUAssets" \notin dropped
    /\ rc_gpu' = rc_gpu - 1
    /\ TeardownStep(GPUAssetsDrop(pool_textures, pool_geoms, pool_pipelines),
                    "GPUAssets", "fields")

\* the last Rc<GPU> is released: GPU::drop
DropGPU ==
    /\ tdpc = "fields"
    /\ rc_gpu = 0
    /\ UNCHANGED rc_gpu
    /\ TeardownStep(GPUDrop, "GPU", "done")

NextTeardown ==
    \/ CreateCachedTexture
    \/ CreateCachedGeom
    \/ CreateCachedPipeline
    \/ GpuFinishFrame
    \/ DropMirage
    \/ DropForwardRenderer
    \/ DropGPUAssets
    \/ DropGPU

\* before Mirage::initialize: nothing is created, nothing is submitted
TeardownParked ==
    /\ pool_textures = 0
    /\ pool_geoms = 0
    /\ pool_pipelines = 0
    /\ td_created = {}
    /\ gpu_in_flight = 0
    /\ rc_gpu = 0
    /\ dropped = {}
    /\ td_log = << >>
    /\ tdpc = "off"

SetupParked == QueueParked /\ SwapParked /\ TextureParked /\ MemoryParked /\ TeardownParked

\* the frame loop before its first render call, with one of the two loops
FrameParked == variant = "gpu" /\ InitFrame

\* the forward renderer before its first render call, with an empty batch
RenderParked == objects = << >> /\ InitRender

Init == InitFrame /\ InitCache /\ RenderParked /\ InitDevice /\ SetupParked

Next == NextFrame

Spec == Init /\ [][Next]_vars

InitCacheSpec ==
    FrameParked /\ InitCache /\ RenderParked /\ InitDevice /\ SetupParked

NextCacheSpec == NextCache

\* The frame loop with its scheduling assumptions: the thread inside render
\* proceeds once its fence wait can return, the presentation engine
\* eventually releases an acquired image, and the GPU eventually carries out
\* and completes every submission.
FrameFairness ==
    /\ WF_vars(WaitForFences)
    /\ \A s \in Slots :
          /\ WF_vars(ImageAvailable(s))
          /\ WF_vars(GpuColorOutput(s))
          /\ WF_vars(GpuComplete(s))

SpecFrameLive == Init /\ [][Next]_vars /\ FrameFairness

SpecCache == InitCacheSpec /\ [][NextCacheSpec]_vars

\* the asset store holds the scene; the GPUAssets pools are not used by
\* renderer::ForwardRenderer, which keeps its own caches
InitRenderSpec ==
    /\ FrameParked
    /\ asset_count = Len(SceneAssets) + 1
    /\ assets_pool = SceneAssets
    /\ pipeline_pool = EmptyMap
    /\ geom_pool = EmptyMap
    /\ texture_pool = EmptyMap
    /\ next_handle = 1
    /\ creates = EmptyMap
    /\ lookups = << >>
    /\ lookup_count = 0
    /\ InitRender
    /\ InitDevice
    /\ SetupParked

NextRenderSpec == NextRender

\* device selection runs at startup, before the renderer and the cache exist
InitDeviceSpec ==
    FrameParked /\ InitCache /\ RenderParked /\ InitDevice /\ SetupParked

NextDeviceSpec == NextDevice

SpecDevice == InitDeviceSpec /\ [][NextDeviceSpec]_vars

SpecRender == InitRenderSpec /\ [][NextRenderSpec]_vars

\* everything but the component under study, before it is used
CoreParked == FrameParked /\ InitCache /\ RenderParked /\ InitDevice

InitQueueSpec == CoreParked /\ InitQueue /\ SwapParked /\ TextureParked /\ MemoryParked /\ TeardownParked

NextQueueSpec == NextQueue

SpecQueue == InitQueueSpec /\ [][NextQueueSpec]_vars

InitSwapSpec == CoreParked /\ QueueParked /\ InitSwap /\ TextureParked /\ MemoryParked /\ TeardownParked

NextSwapSpec == NextSwap

SpecSwap == InitSwapSpec /\ [][NextSwapSpec]_vars

InitTextureSpec == CoreParked /\ QueueParked /\ SwapParked /\ InitTexture /\ MemoryParked /\ TeardownParked

NextTextureSpec == NextTexture

SpecTexture == InitTextureSpec /\ [][NextTextureSpec]_vars

InitMemorySpec == CoreParked /\ QueueParked /\ SwapParked /\ TextureParked /\ InitMemory /\ TeardownParked

NextMemorySpec == NextMemory

SpecMemory == InitMemorySpec /\ [][NextMemorySpec]_vars

InitTeardownSpec == CoreParked /\ QueueParked /\ SwapParked /\ TextureParked /\ MemoryParked /\ InitTeardown

NextTeardownSpec == NextTeardown

SpecTeardown == InitTeardownSpec /\ [][NextTeardownSpec]_vars

\* ------------------------------------------------------------------------
\* Claims
\* ------------------------------------------------------------------------

\* C1: after any sequence of render calls of which k ran through to the
\* presentation step (suboptimal and out-of-date presents included), the
\* current frame-slot index is k mod N, and every change of the index is a
\* step from i to (i + 1) mod N made by exactly one presented frame.
C1_FrameIndexIsPresentedModN ==
    /\ [](pc = "idle" => frame_index = presented % MAX_FRAMES_IN_FLIGHT)
    /\ [][/\ presented' \in {presented, presented + 1}
          /\ (presented' = presented + 1) =>
                 frame_index' = (frame_index + 1) % MAX_FRAMES_IN_FLIGHT
          /\ (presented' = presented) => frame_index' = frame_index]_vars

C1_Witness ==
    /\ pc = "idle"
    /\ presented = 3
    /\ last_present = "out_of_date"
    /\ frame_index = 1

\* C2: whenever a slot's command buffer is about to be reset, re-recorded or
\* submitted, no earlier submission of that slot is still executing on the
\* GPU, and the slot's fence has been waited on and then reset.
C2_NoReuseWhileExecuting ==
    pc \in {"reset_cb", "record", "submit"} =>
        /\ ~executing[cur]
        /\ ~in_flight_fences[cur]
        /\ command_buffers[cur] # "pending"

C2_Witness ==
    /\ pc = "reset_cb"
    /\ presented >= MAX_FRAMES_IN_FLIGHT
    /\ \E s \in Slots : s # cur /\ executing[s]

\* the cache keys that hold a GPU resource
CacheKeys ==
    {<<"texture", id>> : id \in DOMAIN texture_pool}
    \cup {<<"geom", id>> : id \in DOMAIN geom_pool}
    \cup {<<"pipeline", id, rp>> : id \in DOMAIN pipeline_pool, rp \in RenderPasses}

\* C3: two consecutive lookups of the handle of a registered asset
\* (get_texture, get_geom, or get_pipeline with one render pass) both return
\* a resource, the two resources are the same GPU object, and the second
\* lookup does no upload or compilation.
C3_TwoLookupsSameResource ==
    (/\ Len(lookups) = 2
     /\ lookups[1].op \in {"get_texture", "get_geom", "get_pipeline"}
     /\ lookups[1].op = lookups[2].op
     /\ lookups[1].id = lookups[2].id
     /\ lookups[1].render_pass = lookups[2].render_pass
     /\ lookups[1].registered)
    => /\ lookups[1].result.some
       /\ lookups[2].result.some
       /\ lookups[1].result = lookups[2].result
       /\ ~lookups[2].gpu_work

\* C4: every cache key has its GPU resource created at most once, and an
\* entry once in a pool stays there with the same GPU object.
C4_CreatedOnceNeverReplaced ==
    /\ [](\A key \in DOMAIN creates : creates[key] <= 1)
    /\ [][/\ \A id \in DOMAIN texture_pool :
                id \in DOMAIN texture_pool' /\ texture_pool'[id] = texture_pool[id]
          /\ \A id \in DOMAIN geom_pool :
                id \in DOMAIN geom_pool' /\ geom_pool'[id] = geom_pool[id]
          /\ \A id \in DOMAIN pipeline_pool :
                /\ id \in DOMAIN pipeline_pool'
                /\ \A rp \in DOMAIN pipeline_pool[id] :
                      /\ rp \in DOMAIN pipeline_pool'[id]
                      /\ pipeline_pool'[id][rp] = pipeline_pool[id][rp]]_vars

C4_Witness ==
    /\ Len(lookups) = 2
    /\ lookups[1].op = "get_texture" /\ lookups[2].op = "get_texture"
    /\ lookups[1].id = lookups[2].id
    /\ lookups[1].gpu_work /\ ~lookups[2].gpu_work
    /\ creates[<<"texture", lookups[1].id>>] = 1
    /\ lookups[1].id \in DOMAIN texture_pool

\* a lookup of a registered material's pipeline
PipelineLookup(l) == l.op \in {"get_pipeline", "get_material"} /\ l.registered

\* C5: materials of one shading definition looked up against two different
\* render passes give two distinct cached pipelines, each built against its
\* own render pass; one material looked up twice against one render pass
\* gives exactly one cached pipeline.
C5_PipelineKeyedByRenderPass ==
    (Len(lookups) = 2 /\ PipelineLookup(lookups[1]) /\ PipelineLookup(lookups[2]))
    => LET m1 == lookups[1].id
           m2 == lookups[2].id
           r1 == lookups[1].render_pass
           r2 == lookups[2].render_pass
       IN  /\ r1 \in DOMAIN pipeline_pool[m1]
           /\ r2 \in DOMAIN pipeline_pool[m2]
           /\ pipeline_pool[m1][r1].render_pass = r1
           /\ pipeline_pool[m2][r2].render_pass = r2
           /\ (r1 # r2 /\ assets_pool[m1].shading = assets_pool[m2].shading)
                  => pipeline_pool[m1][r1].pipeline # pipeline_pool[m2][r2].pipeline
           /\ (r1 = r2 /\ m1 = m2)
                  => /\ creates[<<"pipeline", m1, r1>>] = 1
                     /\ Cardinality({k \in DOMAIN creates :
                            k[1] = "pipeline" /\ k[2] = m1 /\ k[3] = r1}) = 1

C5_Witness ==
    /\ Len(lookups) = 2 /\ PipelineLookup(lookups[1]) /\ PipelineLookup(lookups[2])
    /\ lookups[1].id # lookups[2].id
    /\ lookups[1].render_pass # lookups[2].render_pass
    /\ \E m \in DOMAIN pipeline_pool : DOMAIN pipeline_pool[m] = RenderPasses

C5_WitnessTwice ==
    /\ Len(lookups) = 2 /\ PipelineLookup(lookups[1]) /\ PipelineLookup(lookups[2])
    /\ lookups[1].id = lookups[2].id
    /\ lookups[1].render_pass = lookups[2].render_pass
    /\ lookups[1].gpu_work

\* the objects of the batch, by position
ObjectIds == 1 .. Len(objects)

\* object i's handles all resolve: registered geometry, registered material
\* whose texture is registered
ValidObject(i) ==
    /\ ~AssetsLoadPanics(assets_pool, objects[i].geom, "geom")
    /\ ~AssetsLoadPanics(assets_pool, objects[i].material, "material")
    /\ assets_pool[objects[i].material].texture.some
    /\ ~AssetsLoadPanics(assets_pool,
                         assets_pool[objects[i].material].texture.value, "texture")

\* the indexed draws recorded for object i, as positions in the command buffer
DrawsOf(i) ==
    {k \in 1 .. Len(cmds) : cmds[k].op = "draw_indexed" /\ cmds[k].obj = i}

\* the descriptor-set writes issued for object i in this frame
WritesOf(i) == {k \in 1 .. Len(writes) : writes[k].obj = i}

\* C6: a batch with an object whose material handle was never registered
\* and a second, valid object: the frame does not panic, records no draw for
\* the first object and records the draw of the valid one.
C6_UnregisteredMaterialSkipped ==
    (\E i, j \in ObjectIds :
        /\ objects[i].material = Unregistered
        /\ ValidObject(j))
    => /\ rpc # "panicked"
       /\ rpc = "done" =>
             \A i \in ObjectIds :
                /\ objects[i].material = Unregistered => DrawsOf(i) = {}
                /\ ValidObject(i) => DrawsOf(i) # {}

\* C7: an object whose material has no texture gets no descriptor-set write
\* and no draw in the frame, and the valid objects of the batch are drawn.
C7_NoTextureNoDraw ==
    rpc = "done" =>
        \A i \in ObjectIds :
           /\ (/\ ~AssetsLoadPanics(assets_pool, objects[i].material, "material")
               /\ ~assets_pool[objects[i].material].texture.some)
              => (WritesOf(i) = {} /\ DrawsOf(i) = {})
           /\ ValidObject(i) => DrawsOf(i) # {}

\* the command of kind op recorded for object i
CmdOf(i, op) == CHOOSE k \in 1 .. Len(cmds) : cmds[k].op = op /\ cmds[k].obj = i

\* two objects that share one registered geometry and have different
\* registered materials
TwoObjectScene ==
    /\ Len(objects) = 2
    /\ objects[1].geom = objects[2].geom
    /\ objects[1].material # objects[2].material
    /\ \A i \in ObjectIds :
          /\ ~AssetsLoadPanics(assets_pool, objects[i].geom, "geom")
          /\ ~AssetsLoadPanics(assets_pool, objects[i].material, "material")

\* C8: for two objects that share one geometry handle and have different
\* material handles, a frame records exactly two indexed draws, the two bind
\* different descriptor sets at set index 1, and each draw comes after a
\* push constant that holds its own object's model matrix.
C8_TwoDrawsDistinctSets ==
    (TwoObjectScene /\ rpc = "done") =>
        /\ Cardinality({k \in 1 .. Len(cmds) : cmds[k].op = "draw_indexed"}) = 2
        /\ \A i \in ObjectIds :
              /\ Cardinality(DrawsOf(i)) = 1
              /\ \E k \in 1 .. Len(cmds) :
                    /\ cmds[k].op = "push_constants"
                    /\ cmds[k].obj = i
                    /\ cmds[k].data.model = objects[i].model
                    /\ k < CmdOf(i, "draw_indexed")
                    /\ \A n \in (k + 1) .. (CmdOf(i, "draw_indexed") - 1) :
                          cmds[n].op # "push_constants"
              /\ \E k \in 1 .. Len(cmds) :
                    /\ cmds[k].op = "bind_descriptor_sets"
                    /\ cmds[k].obj = i
                    /\ k < CmdOf(i, "draw_indexed")
        /\ cmds[CmdOf(1, "bind_descriptor_sets")].set1
              # cmds[CmdOf(2, "bind_descriptor_sets")].set1

C8_Witness ==
    /\ TwoObjectScene
    /\ rpc = "done"
    /\ renders = 2
    /\ objects[1].model # objects[2].model
    /\ Len(writes) = 2

\* the highest score among the enumerated devices (0 when there is none)
MaxScore ==
    IF devices_seen = << >> THEN 0
    ELSE CHOOSE m \in {devices_seen[i].score : i \in 1 .. Len(devices_seen)} :
            \A i \in 1 .. Len(devices_seen) : devices_seen[i].score <= m

\* C9: once selection has run, a device is selected exactly when the highest
\* score is greater than 0, the selected device has the highest score, and
\* selection aborts when no score is greater than 0.
C9_HighestScoreSelected ==
    dpc # "enumerate" =>
        /\ MaxScore > 0 =>
              /\ dpc = "picked"
              /\ devices_seen[physical_device].score = MaxScore
        /\ MaxScore = 0 => dpc = "panicked"

\* C10: a device that fails a disqualifying check scores exactly 0 and is
\* never the selected device.
C10_DisqualifiedNeverSelected ==
    \A i \in 1 .. Len(devices_seen) :
        devices_seen[i].fails =>
            /\ devices_seen[i].score = 0
            /\ physical_device # i

C10_Witness ==
    /\ dpc # "enumerate"
    /\ Len(devices_seen) = 2
    /\ \E i, j \in 1 .. Len(devices_seen) :
          /\ devices_seen[i].fails
          /\ ~devices_seen[i].sampler_anisotropy
          /\ devices_seen[i].device_type = "DISCRETE_GPU"
          /\ devices_seen[j].device_type = "INTEGRATED_GPU"
          /\ devices_seen[j].score > 0

\* ---------------------------------------------------------------------
\* Queue family claims
\* ---------------------------------------------------------------------

\* the families of the device that can run compute, as Option<u32> indices
ComputeFamilies ==
    {Some(i - 1) : i \in {k \in 1 .. Len(q_properties) : q_properties[k].compute}}

\* the families that support both graphics and presentation
GraphicsPresentFamilies ==
    {Some(i - 1) : i \in {k \in 1 .. Len(q_properties) :
                              q_properties[k].graphics /\ q_properties[k].present}}

\* C11: whenever the device has a compute-capable family other than the
\* chosen graphics family, the chosen compute family differs from the
\* graphics family; the graphics family is reused for compute only when no
\* other compute-capable family exists.
C11_ComputeDistinctWhenPossible ==
    qpc = "done" =>
        ((ComputeFamilies \ {queue_families.graphic} # {}) =>
            queue_families.compute # queue_families.graphic)

\* C12: if any family supports both graphics and presentation, graphics and
\* present are one and the same family; two separate families are assigned
\* only when no single family supports both.
C12_SingleGraphicsPresentFamily ==
    qpc = "done" =>
        /\ (GraphicsPresentFamilies # {} =>
               /\ queue_families.graphic = queue_families.present
               /\ queue_families.graphic \in GraphicsPresentFamilies)
        /\ (/\ queue_families.graphic.some
            /\ queue_families.present.some
            /\ queue_families.graphic # queue_families.present
            => GraphicsPresentFamilies = {})

\* a graphics-only family comes first and a later family supports both: the
\* graphics role moves to the later family
C12_Witness ==
    /\ qpc = "done"
    /\ Len(q_properties) = 2
    /\ q_properties[1].graphics /\ ~q_properties[1].present
    /\ q_properties[2].graphics /\ q_properties[2].present
    /\ queue_families.graphic = Some(1)
    /\ queue_families.present = Some(1)

\* ---------------------------------------------------------------------
\* Swap chain claims
\* ---------------------------------------------------------------------

\* the present modes the surface lists
ListedPresentModes ==
    {surface_present_modes[i] : i \in 1 .. Len(surface_present_modes)}

\* C13: the present mode chosen is MAILBOX whenever the surface lists it and
\* FIFO otherwise; a surface that reports only FIFO selects FIFO without
\* error.
C13_MailboxElseFifo ==
    spc # "start" =>
        /\ present_mode = IF "MAILBOX" \in ListedPresentModes
                          THEN "MAILBOX" ELSE "FIFO"
        /\ (ListedPresentModes = {"FIFO"} /\ max_image_count # 0
               => spc = "created")

\* a surface without MAILBOX whose first mode is not FIFO
C13_Witness ==
    /\ spc = "created"
    /\ surface_present_modes = <<"IMMEDIATE", "FIFO">>
    /\ present_mode = "FIFO"

\* min_image_count + 1 within the limits of the surface, where a
\* max_image_count of 0 sets no upper limit
RequestedImageCount ==
    IF max_image_count = 0 THEN min_image_count + 1
    ELSE Clamp(min_image_count + 1, min_image_count, max_image_count)

\* C14: for every surface capability report, max_image_count = 0 included,
\* the swap chain is created with min_image_count + 1 images, clamped to
\* [min_image_count, max_image_count].
C14_ImageCountClamped ==
    spc # "start" =>
        /\ spc = "created"
        /\ image_count = RequestedImageCount

\* ---------------------------------------------------------------------
\* Texture upload claims
\* ---------------------------------------------------------------------

\* the calls of a complete upload, in order
UploadProtocol ==
    <<"transition_undefined_to_transfer_dst",
      "copy_buffer_to_image",
      IF mip_levels > 1 THEN "generate_mipmaps"
      ELSE "transition_transfer_dst_to_shader_read_only",
      "free_memory",
      "destroy_buffer">>

\* C15: every texture upload performs, in this order: transition undefined
\* to transfer-destination; copy of the staging buffer into the image; mipmap
\* generation when there is more than one mip level, otherwise a direct
\* transition to shader-read-only; and, only after these have completed on
\* the GPU, release of the staging buffer and its memory.
C15_UploadOrder ==
    /\ Len(upload_log) <= Len(UploadProtocol)
    /\ \A i \in 1 .. Len(upload_log) :
          /\ upload_log[i].op = UploadProtocol[i]
          /\ (upload_log[i].op \in {"free_memory", "destroy_buffer"} =>
                 /\ upload_log[i].pending = 0
                 /\ completed = 3)
    /\ (tpc = "done" => Len(upload_log) = Len(UploadProtocol))
    /\ (staging = "freed" <=> tpc = "done")

C15_Witness ==
    /\ tpc = "done"
    /\ staging = "freed"
    /\ mip_levels = 3
    /\ tex_width = 5
    /\ Len(upload_log) = 5

\* C16: the mip level count of a texture of width w and height h equals
\* floor(log2(min(w, h))) + 1: 2^(count - 1) <= min(w, h) < 2^count; 512x256
\* gives 9 and 1x1 gives 1.
C16_MipLevelCount ==
    tpc # "load" =>
        /\ mip_levels >= 1
        /\ Pow2(mip_levels - 1) <= tex_width
        /\ Pow2(mip_levels - 1) <= tex_height
        /\ (tex_width < Pow2(mip_levels) \/ tex_height < Pow2(mip_levels))
        /\ (tex_width = 512 /\ tex_height = 256 => mip_levels = 9)
        /\ (tex_width = 1 /\ tex_height = 1 => mip_levels = 1)

C16_Witness ==
    /\ tpc = "new"
    /\ tex_width = 512
    /\ tex_height = 256
    /\ mip_levels = 9

\* ---------------------------------------------------------------------
\* Memory type claims
\* ---------------------------------------------------------------------

\* the indices allowed by the mask whose type has every requested flag
SuitableMemoryTypes ==
    {i \in 0 .. Len(memory_types) - 1 :
        /\ TypeBitSet(type_bits, i)
        /\ property_flags \subseteq memory_types[i + 1]}

\* C17: the memory-type search returns only an index whose bit is set in the
\* allowed type mask and whose property flags contain every requested flag;
\* when no such type exists it aborts with a fatal error and never returns a
\* type that lacks a requested flag.
C17_MemoryTypeSuitableOrFatal ==
    /\ (mpc = "returned" =>
          /\ memory_type_index.some
          /\ memory_type_index.value \in SuitableMemoryTypes)
    /\ (mpc # "start" /\ SuitableMemoryTypes = {} => mpc = "panicked")
    /\ (mpc = "panicked" => SuitableMemoryTypes = {})

\* the first type is allowed by the mask but has one of the two requested
\* flags only; the second type has both
C17_Witness ==
    /\ mpc = "returned"
    /\ property_flags = {"HOST_VISIBLE", "HOST_COHERENT"}
    /\ Len(memory_types) = 2
    /\ memory_types[1] = {"HOST_VISIBLE"}
    /\ type_bits = 3
    /\ memory_type_index = Some(1)

\* no allowed type has the requested flag: the search is fatal
C17_WitnessFatal ==
    /\ mpc = "panicked"
    /\ property_flags = {"DEVICE_LOCAL"}
    /\ Len(memory_types) = 2
    /\ type_bits = 3

\* ---------------------------------------------------------------------
\* Shutdown claims
\* ---------------------------------------------------------------------

\* the calls that destroy or free a Vulkan object
IsDestroy(entry) == entry.call # "device_wait_idle"

\* the number of destroy calls made on an object
DestroyCount(obj) ==
    Cardinality({i \in 1 .. Len(td_log) :
                    IsDestroy(td_log[i]) /\ td_log[i].obj = obj})

\* the objects of the resources created through the cache
CachedObjects ==
    UNION ({TextureObjects("pool_texture", k) : k \in 1 .. pool_textures}
           \cup {GeomObjects("pool_geom", k) : k \in 1 .. pool_geoms}
           \cup {PipelineObjects("pool_pipeline", k) : k \in 1 .. pool_pipelines})

\* C18: after any number of resources of each cache kind have been created
\* and the system is shut down, every GPU create call has exactly one
\* matching destroy call: nothing is leaked, nothing is destroyed twice.
C18_CreateMatchesDestroy ==
    tdpc = "done" =>
        /\ \A obj \in CachedObjects : DestroyCount(obj) = 1
        /\ \A obj \in td_created : DestroyCount(obj) <= 1

\* the positions of the calls on an object
PositionsOf(call, obj) ==
    {i \in 1 .. Len(td_log) : td_log[i].call = call /\ td_log[i].obj = obj}

\* every call first on a is made before every call second on b
Before(first, a, second, b) ==
    \A i \in PositionsOf(first, a), j \in PositionsOf(second, b) : i < j

\* C19: during shutdown every image view is destroyed before the image and
\* the memory backing it, and every pipeline is destroyed before its
\* pipeline layout.
C19_ViewBeforeImage ==
    /\ \A obj \in td_created :
          obj[3] \in {"image_view", "color_image_view", "depth_image_view"} =>
              LET image == Obj(obj[1], obj[2],
                               CASE obj[3] = "image_view" -> "image"
                                 [] obj[3] = "color_image_view" -> "color_image"
                                 [] OTHER -> "depth_image")
                  memory == Obj(obj[1], obj[2],
                               CASE obj[3] = "image_view" -> "image_memory"
                                 [] obj[3] = "color_image_view" -> "color_image_memory"
                                 [] OTHER -> "depth_image_memory")
              IN  /\ Before("destroy_image_view", obj, "destroy_image", image)
                  /\ Before("destroy_image_view", obj, "free_memory", memory)
    /\ \A obj \in td_created :
          obj[3] = "pipeline" =>
              Before("destroy_pipeline", obj, "destroy_pipeline_layout",
                     Obj(obj[1], obj[2], "pipeline_layout"))

\* the position of the first destroy or free call
FirstDestroy ==
    CHOOSE i \in 1 .. Len(td_log) :
        /\ IsDestroy(td_log[i])
        /\ \A j \in 1 .. i - 1 : ~IsDestroy(td_log[j])

C21_OutOfDateReturnsSilently ==
    /\ [](last_acquire = "out_of_date" => pc = "idle")
    /\ [][last_acquire' = "out_of_date" /\ last_acquire # "out_of_date" =>
             UNCHANGED <<command_buffers, in_flight_fences, executing,
                         submissions, present_queue, presented, frame_index,
                         frames_in_flight>>]_vars

\* C22: every frame-slot fence is created signaled: in each of the first N
\* frames the fence wait finds the slot's fence signaled although the GPU has
\* never signaled it.
C22_FirstFramesDoNotBlock ==
    (pc = "wait" /\ presented < MAX_FRAMES_IN_FLIGHT) =>
        /\ wait_for_fences(in_flight_fences, cur)
        /\ ~gpu_signaled[cur]

\* the second frame has passed its fence wait and no submission has completed
C22_Witness ==
    /\ pc = "acquire"
    /\ presented = MAX_FRAMES_IN_FLIGHT - 1
    /\ cur = MAX_FRAMES_IN_FLIGHT - 1
    /\ \A s \in Slots : ~gpu_signaled[s]
    /\ executing[0]

\* C23: within one frame the GPU starts colour output for the submitted
\* command buffer only after the acquired swapchain image has been made
\* available, and the presentation engine takes the image only after that
\* command buffer has finished: every submission waits on its slot's
\* image-available semaphore at the colour-attachment-output stage and
\* signals the slot's render-finished semaphore, and the present request
\* queued after it waits on that render-finished semaphore.
C23_SemaphoresOrderFrame ==
    /\ [](\A s \in Slots : executing[s] =>
              /\ submissions[s].wait_semaphore = Some(s)
              /\ submissions[s].wait_dst_stage_mask = "COLOR_ATTACHMENT_OUTPUT"
              /\ submissions[s].signal_semaphore = Some(s))
    /\ [][/\ \A s \in Slots :
                (color_output'[s] /\ ~color_output[s]) =>
                    swap_images[slot_image[s]].ready
          /\ Len(present_queue') < Len(present_queue) =>
                swap_images[Head(present_queue).image].rendered
          /\ Len(present_queue') > Len(present_queue) =>
                /\ present_queue'[Len(present_queue')].wait_semaphore =
                       submissions[cur].signal_semaphore
                /\ present_queue'[Len(present_queue')].image = slot_image[cur]
         ]_vars

\* an image has gone through a whole frame: made available, drawn to by a
\* completed submission, and taken by the presentation engine, while the
\* next frame's submission is writing colour to another image
C23_Witness ==
    \E i \in Images, s \in Slots :
        /\ swap_images[i].owner = "free"
        /\ swap_images[i].ready
        /\ swap_images[i].rendered
        /\ color_output[s]
        /\ slot_image[s] # i

\* the slots whose executing submission reads uniform buffer copy b
ReadersOf(b) == {s \in Slots : executing[s] /\ DescriptorSetBuffer(s) = b}

\* C24: the scene-uniform write of a frame changes only the buffer copy of
\* that frame's slot, and no copy is written while a submission that reads
\* it is still executing on the GPU.
C24_UniformWriteOwnSlot ==
    [][\A b \in Slots :
          uniform_buffer_memories'[b] # uniform_buffer_memories[b] =>
              /\ pc = "record"
              /\ b = cur
              /\ ReadersOf(b) = {}]_vars

\* the frame in slot 1 has written its copy while the submission of slot 0
\* that reads the other copy is still executing
C24_Witness ==
    /\ pc = "submit"
    /\ cur = 1
    /\ uniform_buffer_memories[1] = calls
    /\ uniform_buffer_memories[0] \notin {0, calls}
    /\ ReadersOf(0) = {0}

\* C27: at every moment the number of frames in flight (submitted to the
\* GPU and not yet completed, so that their slot's fence has not yet
\* confirmed them) is at most N, and each such frame occupies a slot of its
\* own.
C27_AtMostNFramesInFlight ==
    /\ frames_in_flight <= MAX_FRAMES_IN_FLIGHT
    /\ frames_in_flight = Cardinality({s \in Slots : executing[s]})

\* N frames are in flight and the next render call is held at its fence wait
C27_Witness ==
    /\ frames_in_flight = MAX_FRAMES_IN_FLIGHT
    /\ pc = "wait"
    /\ presented >= MAX_FRAMES_IN_FLIGHT
    /\ ~wait_for_fences(in_flight_fences, cur)

\* the present requests still pending in the presentation engine that wait
\* on render-finished semaphore g
PendingPresentsOn(g) ==
    {k \in 1 .. Len(present_queue) : present_queue[k].wait_semaphore = g}

\* C28: when a submission names a slot's render-finished semaphore as its
\* signal semaphore, no earlier present request that waits on that same
\* semaphore is still pending in the presentation engine.
C28_NoPendingPresentOnSignalSemaphore ==
    [][(pc = "submit" /\ pc' = "present") =>
           PendingPresentsOn(submissions'[cur].signal_semaphore) = {}]_vars

\* C26: provided the GPU eventually completes every submission, the fence
\* wait at the start of every render call eventually returns, also after
\* calls that returned early on an out-of-date acquisition: a fence is
\* unsignaled only between its reset and the completion of the submission
\* of the same call that signals it, and the early return leaves the slot's
\* fence signaled and the slot index unchanged.
C26_FenceWaitReturns ==
    /\ (pc = "wait") ~> (pc = "acquire")
    /\ [](\A s \in Slots : ~in_flight_fences[s] =>
              \/ s = cur /\ pc \in {"reset_cb", "record", "submit"}
              \/ executing[s] /\ submissions[s].fence = Some(s))
    /\ [][(pc = "acquire" /\ pc' = "idle") =>
              /\ in_flight_fences'[cur]
              /\ in_flight_fences' = in_flight_fences
              /\ frame_index' = cur
              /\ frame_index' = frame_index]_vars

\* a render call has passed its fence wait after an earlier call returned on
\* an out-of-date acquisition and two frames were submitted, the slot's
\* fence having been signaled by the GPU
C26_Witness ==
    /\ variant = "gpu"
    /\ pc = "acquire"
    /\ calls = 4
    /\ presented = 2
    /\ gpu_signaled[cur]
    /\ in_flight_fences[cur]

\* the depth compare operator and the depth clear value that belong together
DepthMatches(op, depth) ==
    \/ op = "GREATER" /\ depth = 0
    \/ op = "LESS" /\ depth = 1

\* C25: as long as the reversed-Z setting has not been changed after the
\* first pipeline was cached, the pipeline bound for every draw of a frame
\* has the depth compare operator that matches the depth the frame's render
\* pass clears to: GREATER with a clear to 0.0, LESS with a clear to 1.0.
C25_DepthCompareMatchesClear ==
    ~z_changed =>
        \A k, b \in 1 .. Len(cmds) :
            (cmds[k].op = "bind_pipeline" /\ cmds[b].op = "begin_render_pass") =>
                DepthMatches(cmds[k].depth_compare_op, cmds[b].clear_depth)

\* a frame recorded with reversed-Z switched on before any pipeline was
\* cached: two draws with a GREATER pipeline after a clear to 0.0
C25_Witness ==
    /\ ~z_changed
    /\ depth_reverse_z
    /\ rpc = "done"
    /\ renders = 2
    /\ Cardinality({k \in 1 .. Len(cmds) : cmds[k].op = "bind_pipeline"}) = 2
    /\ \E b \in 1 .. Len(cmds) :
          cmds[b].op = "begin_render_pass" /\ cmds[b].clear_depth = 0

\* C29: whenever at least one enumerated physical device has a score greater
\* than 0, device selection returns a device and does not abort, whatever
\* disqualified devices are also present and whether or not several devices
\* share the same score.
C29_SuitableDeviceIsSelected ==
    (dpc # "enumerate" /\ \E i \in 1 .. Len(devices_seen) :
                              devices_seen[i].score > 0) =>
        /\ dpc = "picked"
        /\ physical_device \in 1 .. Len(devices_seen)

\* C30: after a texture upload with n mip levels has completed, every mip
\* level 0 .. n - 1 of the image is in SHADER_READ_ONLY_OPTIMAL layout, for
\* n = 1 and for every n greater than 1.
C30_AllMipLevelsShaderReadOnly ==
    tpc \in {"free", "done"} =>
        /\ mip_levels >= 1
        /\ DOMAIN mip_layouts = 0 .. (mip_levels - 1)
        /\ \A l \in 0 .. (mip_levels - 1) :
              mip_layouts[l] = "SHADER_READ_ONLY_OPTIMAL"

\* a completed upload of an image with four mip levels
C30_Witness ==
    /\ tpc = "done"
    /\ mip_levels = 4
    /\ linear_filter
    /\ mip_layouts[mip_levels - 1] = "SHADER_READ_ONLY_OPTIMAL"

\* a completed upload of an image with a single mip level
C30_WitnessSingleLevel ==
    /\ tpc = "done"
    /\ mip_levels = 1
    /\ mip_layouts[0] = "SHADER_READ_ONLY_OPTIMAL"

====
